---- MODULE Spec2Model ----
(***************************************************************************)
(* Single-active-instance coordination of green-charge-bot (src/app.js):   *)
(* task locks (TaskLock collection), the master/execution leases (Lock     *)
(* collection) and the Telegram consumer's conflict back-off.              *)
(*                                                                         *)
(* Time is discrete.  One tick is tickMs milliseconds, fixed by the        *)
(* initial condition of each specification so that every delay and timeout *)
(* the specification uses is a multiple of it.  Date values are tick       *)
(* counts.  Each store call (find, save, delete) is one atomic step; the   *)
(* instance-local code that follows an await runs in the same step.        *)
(***************************************************************************)
EXTENDS Integers, FiniteSets, Sequences, TLC

----------------------------------------------------------------------------
(* Bounds of the model *)

\* Last tick of the clock in TaskSpec.
MaxTime == 5
\* Last tick of the clock in PollSpec (12 conflict cycles of about a minute).
PollMaxTime == 125
\* Last tick of the clock in LeaseSpec (the Lock TTL is 60 ticks).
LeaseMaxTime == 68
\* Last tick at which the leader may crash.
MaxCrashTime == 10
\* Ticks the TTL monitor of the store may be late.
TtlLag == 1
\* Last tick of the clock in FailSpec.
FailMaxTime == 20
\* Store calls of the two acquisitions that may throw in one run of FailSpec.
MaxStoreFailures == 2
\* Last tick of the clock in NetSpec.
NetMaxTime == 8
\* Last tick of the clock in BeatSpec.
BeatMaxTime == 8
\* Ticks by which the intervals of the former leader may be ahead in BeatSpec.
MaxPhase == 2
MarkerMaxTime == 22
RenewMaxTime == 8
TakeoverMaxTime == 66
First409Time == 54
MaxConflicts == 1
MarkerMaxSignalTime == 16
\* Last tick of the clock in ReqSpec.
ReqMaxTime == 10
\* Shutdown requests that may arrive while a shutdown is in progress.
MaxLateRequests == 1
\* Last tick at which SIGINT or SIGTERM arrives.
MaxSignalTime == 20
\* Last tick of the clock in ShutSpec.
ShutMaxTime == 30
HaltMaxTime == 18
HaltMaxSignalTime == 12
\* Number of lock ids acquireTaskLock may generate in one run.
MaxLockIds == 3
\* Last tick of the clock in ProbeSpec.
ProbeMaxTime == 3
\* Number of lock ids the probes of ProbeSpec may generate in one run (the
\* holder and the skipped probes that it takes to pass MAX_CONNECTION_FAILURES).
MaxProbes == 8

\* The instances that run against the same store (INSTANCE_ID of each).
Instances == {"i1", "i2"}

----------------------------------------------------------------------------
(* Program constants, in milliseconds as in the source *)

\* the task-lock delays (20 s, 60 s) are multiples of 20 s
TaskTickMs == 20 * 1000
\* the timers of the coordinator and of the consumer are multiples of 5 s
TimerTickMs == 5 * 1000

MAX_RETRY_COUNT == 10
MAX_NETWORK_ERROR_COUNT == 10
\* polling_error handler: the light restart is tried 5 s after a network error
LIGHT_RESTART_DELAY == 5000
\* restartPolling waits 5 s after stopPolling
RESTART_POLLING_WAIT == 5000
\* the full restart after network errors or a failed light restart: 15 s
FULL_RESTART_DELAY == 15000
\* stopBot waits 5 s after stopPolling
STOP_BOT_WAIT == 5000
\* performShutdown waits 5 s between stopBot and releaseAllLocks
SHUTDOWN_WAIT == 5000
SHUTDOWN_TIMEOUT == 15000
\* startBot and testTelegramConnection hold back for 60 s after a conflict
CONFLICT_COOLDOWN == 60000
\* skipped probes after which testTelegramConnection runs the emergency cleanup
MAX_CONNECTION_FAILURES == 6
\* polling_error handler: min(5000 * 2^count + random * 5000, 60000)
BACKOFF_BASE == 5000
BACKOFF_CAP == 60000
\* startBotImplementation: retry after a failed probe (45-75 s), after an error
PROBE_RETRY_MIN == 45000
PROBE_RETRY_SPREAD == 30000
START_ERROR_RETRY == 30000

GLOBAL_LOCK_TIMEOUT == 180000
CONNECTION_ATTEMPT_COOLDOWN == 30000
MIN_INITIAL_DELAY == 20000
MAX_INITIAL_DELAY == 40000
\* Lock.created_at: expires 300 (seconds)
LOCK_TTL == 300 * 1000
\* periods of the master heartbeat, the execution heartbeat, the lock check
MASTER_HEARTBEAT_PERIOD == 15000
EXECUTION_HEARTBEAT_PERIOD == 10000
LOCK_CHECK_PERIOD == 30000
\* initializeBot: wait of 15-30 s when another instance looks active
INIT_EXTRA_WAIT_MIN == 15000
INIT_EXTRA_WAIT_SPREAD == 15000
\* acquireMasterLock: retry when another instance holds an active execution
\* lock (60-90 s), holds the master lock, after an error
ACTIVE_RETRY_MIN == 60000
ACTIVE_RETRY_SPREAD == 30000
MASTER_HELD_RETRY == 30000
MASTER_ERROR_RETRY == 20000
\* acquireExecutionLock: jitter of the cooldown retry, retry when another
\* instance holds the lock, after an error; delay of startBot
COOLDOWN_JITTER == 5000
EXECUTION_HELD_RETRY == 20000
EXECUTION_ERROR_RETRY == 15000
START_BOT_DELAY == 5000
\* heartbeats and lock check: delay of the re-acquisition (and its jitter)
REACQUIRE_DELAY == 5000
REACQUIRE_JITTER == 5000
\* lock check: a conflict counts as recent for 2 minutes
RECENT_CONFLICT == 120000

\* values of Math.random() * spread the model draws: the least, the greatest
RandomOf(spread) == {0, spread - 1}
\* a timestamp that is null
NoTime == 0 - 1

TASK_LOCK_TIMEOUT == 60000
\* timeout testTelegramConnection and the execution heartbeat pass
PROBE_LOCK_TIMEOUT == 20000
\* age above which a 'telegram_test' lock is force-reclaimed
FORCE_RECLAIM_AGE == 60000

\* Task names: the one on the force-reclaim path and an ordinary one.
TaskNames == {"telegram_test", "bot_start"}
\* Lock durations (ms) a caller may pass: the two the program passes itself and
\* a longer one (timeoutMs is a parameter of the exported helpers).
TimeoutInputs == {PROBE_LOCK_TIMEOUT, TASK_LOCK_TIMEOUT, 2 * TASK_LOCK_TIMEOUT}

----------------------------------------------------------------------------
VARIABLES
  tickMs,     \* milliseconds per tick (never changes)
  now,        \* the clock (Date.now()), in ticks
  taskLocks,  \* the TaskLock collection: a set of documents
  lockSeq,    \* number of lock ids generated so far (ids are unique)
  call,       \* per instance: the executeWithLock call in progress
  con,        \* per instance: the consumer (bot, flags, counters, start chain)
  timers,     \* per instance: the pending setTimeout callbacks
  obs,        \* per instance: what the claims observe of the conflict handling
  locks,      \* the Lock collection: a set of documents
  co,         \* per instance: the coordinator (acquisition chain, cooldown)
  hist        \* what the claims observe of takeovers and of the crash

vars == <<tickMs, now, taskLocks, lockSeq, call, con, timers, obs, locks, co, hist>>
conVars == <<con, timers, obs>>
leaseVars == <<locks, co, hist>>

Ticks(ms) == ms \div tickMs
\* a delay that is no multiple of the tick ends with the tick in which it falls
TicksUp(ms) == (ms + tickMs - 1) \div tickMs

\* pc: where the call stands; found: _id of the lock findOne returned;
\* sawNone, raced: the situation at the time of the call (for the claims):
\* no lock of that name in the store / another instance between the call and
\* the save of the same task; answer: what getMe answered to a probe.
NoCall == [pc |-> "idle", task |-> "none", timeout |-> 0, lockId |-> 0,
           found |-> 0, acquired |-> FALSE, threw |-> FALSE,
           result |-> "none", sawNone |-> FALSE, raced |-> FALSE,
           answer |-> "none"]

\* The consumer of one instance.  bot: the global `bot` is set; listening: that
\* bot polls and has the polling_error handler; chain: where the start chain
\* (startBot -> executeWithLock('bot_start') -> startBotImplementation) stands;
\* chainLock: lock_id of its 'bot_start' TaskLock; terminationReason: the
\* reason instanceTracker has recorded for the shutdown; orphans: the consumer
\* objects that still poll after `bot` was set to null or replaced.
NoConsumer == [bot |-> FALSE, listening |-> FALSE, chain |-> "none", chainLock |-> 0,
               isBotStarting |-> FALSE, isShuttingDown |-> FALSE, exited |-> FALSE,
               pollingRetryCount |-> 0, telegramConflictDetected |-> FALSE,
               lastTelegramConflictTime |-> NoTime, connectionFailureCount |-> 0,
               terminationReason |-> "none", networkErrorCount |-> 0,
               isPollingRestarting |-> FALSE, orphans |-> 0,
               rpAfterStop |-> FALSE]

\* conflictRun: '409 Conflict' polling errors since the last successful
\* connection of the consumer; lastDelay: the retry delay (ms) chosen for the
\* last of them (0: none); connects: parity of the successful connections.
NoObs == [conflictRun |-> 0, lastDelay |-> 0, connects |-> 0]

\* the lock file .bot_lock does not exist
NoLockFile == "none"

\* the id that a process which no longer runs has left in the lock file
StaleId == "stale"

\* LocalLockManager.createLockFile: the file holds the id of the instance
createLockFile(file, i) == i

\* LocalLockManager.checkLockFile
checkLockFile(file, i) == file # NoLockFile /\ file = i

\* a removeLockFile that does not look into the file
removeAnyLockFile(file, i) == NoLockFile

\* LocalLockManager.removeLockFile
removeLockFile(file, i) == IF checkLockFile(file, i) THEN NoLockFile ELSE file

\* The coordinator of one instance.  pc: where the acquisition chain
\* (acquireMasterLock -> acquireExecutionLock) stands; lockFile: what the
\* file .bot_lock in the working directory of the instance holds; host: the
\* instances with the same host share the working directory.
NoCoordinator == [pc |-> "none", lastConnectionAttemptTime |-> NoTime,
                  lockFile |-> NoLockFile, host |-> "own"]

\* forced: tick of the last removal of a stale execution lock of another
\* instance; crashed: the leader that crashed; crashHb: the last heartbeat of
\* its execution lock; waiting: another instance was running and retrying
\* at the crash; tookOver: another instance has held both locks since;
\* reentered: an acquireMasterLock has found its own active master lock;
\* failures: the store calls of the acquisitions that have thrown; failed:
\* the instance whose call threw last; orphan: lock_id of the TaskLock whose
\* holder crashed before releasing it (0: none); requests: the calls of
\* performShutdown made while a shutdown was in progress; requested: the
\* instance that received the last of them; recreated: a lock check has found
\* the lock file missing or with another id and has written it again.
NoHist == [forced |-> NoTime, crashed |-> "none", crashHb |-> NoTime,
           waiting |-> FALSE, tookOver |-> FALSE, reentered |-> FALSE,
           failures |-> 0, failed |-> "none", orphan |-> 0,
           requests |-> 0, requested |-> "none",
           recreated |-> FALSE]

\* a pending setTimeout: k the callback, at the tick it is due; arg is the
\* line of src/app.js that set it (two pending calls of one callback are two
\* timers), for stopBot its caller's back-off in ms
Timer(k, at, arg) == [k |-> k, at |-> at, arg |-> arg]

----------------------------------------------------------------------------
(* The TaskLock collection (src/models/taskLock.js) and the queries on it *)

\* new TaskLock({task_name, lock_id, instance_id, created_at, expires_at})
newTaskLock(task, id, inst, t, timeout) ==
  [task_name |-> task, lock_id |-> id, instance_id |-> inst,
   created_at |-> t, expires_at |-> t + timeout]

\* a query with no condition on expires_at
taskLocksOfAnyAge(tl, task, t) ==
  {d \in tl : d.task_name = task}
\* TaskLock.find({task_name, expires_at: {$gt: new Date()}})
activeTaskLocks(tl, task, t) ==
  {d \in tl : d.task_name = task /\ d.expires_at > t}

\* a sweep with no condition on created_at
sweepAllTelegramTest(tl, t) ==
  {d \in tl : d.task_name # "telegram_test"}
\* TaskLock.deleteMany({task_name: 'telegram_test', created_at: {$lt: oneMinuteAgo}})
sweepOldTelegramTest(tl, t) ==
  {d \in tl : ~(d.task_name = "telegram_test"
                /\ d.created_at < t - Ticks(FORCE_RECLAIM_AGE))}

\* mutant: the check of the task name is dropped
isForceReclaimableAnyTask(d, t) ==
  t - d.created_at > Ticks(FORCE_RECLAIM_AGE)
\* lockAge > 60000 for a 'telegram_test' lock
isForceReclaimable(d, t) ==
  d.task_name = "telegram_test" /\ t - d.created_at > Ticks(FORCE_RECLAIM_AGE)

\* TaskLock.deleteOne({_id})
deleteTaskLockById(tl, id) == {d \in tl : d.lock_id # id}

\* mutant: only a lock that has not expired is deleted
releaseTaskLockKeepExpired(tl, task, id, t) ==
  {d \in tl : ~(d.task_name = task /\ d.lock_id = id /\ d.expires_at > t)}
\* releaseTaskLock: TaskLock.deleteOne({task_name, lock_id})
releaseTaskLock(tl, task, id, t) ==
  {d \in tl : ~(d.task_name = task /\ d.lock_id = id)}

----------------------------------------------------------------------------
(* executeWithLock / acquireTaskLock, one step per await *)

\* executeWithLock(taskName, taskFunction, timeoutMs) is called; acquireTaskLock
\* generates the lock id first.
ExecuteWithLock(i, task, timeout) ==
  /\ call[i].pc = "idle"
  /\ lockSeq < MaxLockIds
  /\ lockSeq' = lockSeq + 1
  /\ call' = [call EXCEPT ![i] =
       [NoCall EXCEPT !.pc = IF task = "telegram_test" THEN "sweep" ELSE "find",
                      !.task = task, !.timeout = Ticks(timeout),
                      !.lockId = lockSeq + 1,
                      !.sawNone = ({d \in taskLocks : d.task_name = task} = {}),
                      !.raced = \E j \in Instances \ {i} :
                                   /\ call[j].task = task
                                   /\ call[j].pc \in {"sweep", "find", "save"}]]
  /\ UNCHANGED <<tickMs, conVars, leaseVars, now, taskLocks>>

\* the preventive deleteMany of 'telegram_test' locks created over a minute ago
AcquireSweep(i) ==
  /\ call[i].pc = "sweep"
  /\ taskLocks' = sweepOldTelegramTest(taskLocks, now)
  /\ call' = [call EXCEPT ![i].pc = "find"]
  /\ UNCHANGED <<tickMs, conVars, leaseVars, now, lockSeq>>

\* findOne of an active lock and the branch on its result
AcquireFind(i) ==
  /\ call[i].pc = "find"
  /\ LET active == activeTaskLocks(taskLocks, call[i].task, now) IN
       IF active = {}
       THEN call' = [call EXCEPT ![i].pc = "save"]
       ELSE \E d \in active :
              IF isForceReclaimable(d, now)
              THEN call' = [call EXCEPT ![i].pc = "forceDelete",
                                        ![i].found = d.lock_id]
              ELSE call' = [call EXCEPT ![i].pc = "done",
                                        ![i].result = "skipped"]
  /\ UNCHANGED <<tickMs, conVars, leaseVars, now, taskLocks, lockSeq>>

\* the forced removal of an old 'telegram_test' lock
AcquireForceDelete(i) ==
  /\ call[i].pc = "forceDelete"
  /\ taskLocks' = deleteTaskLockById(taskLocks, call[i].found)
  /\ call' = [call EXCEPT ![i].pc = "save"]
  /\ UNCHANGED <<tickMs, conVars, leaseVars, now, lockSeq>>

\* taskLock.save(): there is no uniqueness constraint on task_name
AcquireSave(i) ==
  /\ call[i].pc = "save"
  /\ taskLocks' = taskLocks \cup
       {newTaskLock(call[i].task, call[i].lockId, i, now, call[i].timeout)}
  /\ call' = [call EXCEPT ![i].pc = "run", ![i].acquired = TRUE]
  /\ UNCHANGED <<tickMs, conVars, leaseVars, now, lockSeq>>

\* taskFunction() resolves
TaskReturns(i) ==
  /\ call[i].pc = "run"
  /\ call' = [call EXCEPT ![i].pc = "release"]
  /\ UNCHANGED <<tickMs, conVars, leaseVars, now, taskLocks, lockSeq>>

\* taskFunction() rejects: the catch block rethrows, the finally block runs first
TaskThrows(i) ==
  /\ call[i].pc = "run"
  /\ call' = [call EXCEPT ![i].pc = "release", ![i].threw = TRUE]
  /\ UNCHANGED <<tickMs, conVars, leaseVars, now, taskLocks, lockSeq>>

\* finally: releaseTaskLock, then the result or the exception reaches the caller
ExecuteRelease(i) ==
  /\ call[i].pc = "release"
  /\ taskLocks' = releaseTaskLock(taskLocks, call[i].task, call[i].lockId, now)
  /\ call' = [call EXCEPT ![i].pc = "done",
                          ![i].result = IF call[i].threw THEN "thrown" ELSE "returned"]
  /\ UNCHANGED <<tickMs, conVars, leaseVars, now, lockSeq>>

\* the caller takes the result; the instance may call again
CallerResumes(i) ==
  /\ call[i].pc = "done"
  /\ \A j \in Instances : call[j].pc \in {"idle", "done"}
  /\ call' = [call EXCEPT ![i] = NoCall]
  /\ UNCHANGED <<tickMs, conVars, leaseVars, now, taskLocks, lockSeq>>

\* the store's TTL index on expires_at (expires: 0) removes an expired document
TaskLockTTL ==
  /\ \E d \in taskLocks :
       /\ d.expires_at <= now
       /\ taskLocks' = taskLocks \ {d}
  /\ UNCHANGED <<tickMs, conVars, leaseVars, now, lockSeq, call>>

\* time passes
Tick ==
  /\ now < MaxTime
  /\ \A i \in Instances : call[i].pc \in {"idle", "find", "run", "done"}
  /\ now' = now + 1
  /\ UNCHANGED <<tickMs, conVars, leaseVars, taskLocks, lockSeq, call>>

TaskInit ==
  /\ tickMs = TaskTickMs
  /\ now = 0
  /\ taskLocks = {}
  /\ lockSeq = 0
  /\ call = [i \in Instances |-> NoCall]
  /\ con = [i \in Instances |-> NoConsumer]
  /\ timers = [i \in Instances |-> {}]
  /\ obs = [i \in Instances |-> NoObs]
  /\ locks = {}
  /\ co = [i \in Instances |-> NoCoordinator]
  /\ hist = NoHist

TaskNext ==
  \/ \E i \in Instances, task \in TaskNames, timeout \in TimeoutInputs :
       ExecuteWithLock(i, task, timeout)
  \/ \E i \in Instances : AcquireSweep(i)
  \/ \E i \in Instances : AcquireFind(i)
  \/ \E i \in Instances : AcquireForceDelete(i)
  \/ \E i \in Instances : AcquireSave(i)
  \/ \E i \in Instances : TaskReturns(i)
  \/ \E i \in Instances : TaskThrows(i)
  \/ \E i \in Instances : ExecuteRelease(i)
  \/ \E i \in Instances : CallerResumes(i)
  \/ TaskLockTTL
  \/ Tick

TaskSpec == TaskInit /\ [][TaskNext]_vars

\* The process of instance i dies while its task function runs: the finally
\* block of executeWithLock never runs and the TaskLock stays in the store;
\* the process manager starts the instance again.
HolderCrash(i) ==
  /\ call[i].pc = "run"
  /\ hist.orphan = 0
  /\ call' = [call EXCEPT ![i] = NoCall]
  /\ hist' = [hist EXCEPT !.orphan = call[i].lockId]
  /\ UNCHANGED <<tickMs, now, taskLocks, lockSeq, conVars, locks, co>>

\* The calls the program makes itself: 'telegram_test' with 20 s and
\* 'bot_start' with the default timeout.  Their locks expire before they are a
\* minute old, so the forced removal has nothing to act on.
OrphanNext ==
  \/ \E i \in Instances :
       \/ ExecuteWithLock(i, "telegram_test", PROBE_LOCK_TIMEOUT)
       \/ ExecuteWithLock(i, "bot_start", TASK_LOCK_TIMEOUT)
       \/ AcquireSweep(i)
       \/ AcquireFind(i)
       \/ AcquireSave(i)
       \/ TaskReturns(i)
       \/ ExecuteRelease(i)
       \/ CallerResumes(i)
       \/ HolderCrash(i)
  \/ TaskLockTTL
  \/ Tick

OrphanSpec == TaskInit /\ [][OrphanNext]_vars

----------------------------------------------------------------------------
(* Claims about the task locks, checked under TaskSpec *)

\* the call of instance i was skipped / is still held back by a live lock
SkippedNow(c) == c.pc = "done" /\ c.result = "skipped" /\ ~c.acquired

acquireTaskLockSteps(i) ==
  call[i].pc \in {"sweep", "find", "forceDelete"} /\ call'[i] # call[i]

\* C29: a step of acquireTaskLock removes a non-expired TaskLock only if the
\* call is for 'telegram_test' and the lock is a 'telegram_test' lock created
\* more than 60 s ago; when the findOne of a call meets non-expired locks of
\* its task none of which is such a lock, the TaskLock collection is left as it
\* was and the call reports failure (the caller is skipped, nothing acquired).
C29_ForceReclaimOnlyOldProbeLocks ==
  [][\A i \in Instances :
       acquireTaskLockSteps(i)
       => /\ \A d \in taskLocks \ taskLocks' :
               d.expires_at > now
               => /\ call[i].task = "telegram_test"
                  /\ d.task_name = "telegram_test"
                  /\ now - d.created_at > FORCE_RECLAIM_AGE \div tickMs
          /\ (/\ call[i].pc = "find"
              /\ \E d \in taskLocks : d.task_name = call[i].task /\ d.expires_at > now
              /\ \A d \in taskLocks :
                   (d.task_name = call[i].task /\ d.expires_at > now)
                   => ~(/\ d.task_name = "telegram_test"
                        /\ now - d.created_at > FORCE_RECLAIM_AGE \div tickMs))
             => /\ taskLocks' = taskLocks
                /\ call'[i].pc = "done"
                /\ call'[i].result = "skipped"
                /\ ~call'[i].acquired]_vars

\* a call for 'telegram_test' has removed the non-expired lock it found,
\* which was older than 60 s, and holds its own lock in its place
C29_Witness ==
  \E i \in Instances :
    /\ call[i].task = "telegram_test"
    /\ call[i].found # 0
    /\ call[i].acquired
    /\ \A d \in taskLocks : d.lock_id # call[i].found
    /\ \E d \in taskLocks : d.lock_id = call[i].lockId /\ d.expires_at > now

\* the TaskLock left behind by the holder that crashed, while it is stored
orphanLocks == {d \in taskLocks : hist.orphan # 0 /\ d.lock_id = hist.orphan}

\* C30: the TaskLock of a holder that crashed without releasing it does not
\* block once its expires_at has passed: a findOne of acquireTaskLock for that
\* task name that runs while the lock is stored and expired, and no other
\* non-expired lock of the task is stored, goes on to the save, and the save
\* stores the caller's lock and reports success.
C30_OrphanDoesNotBlock ==
  [][\A i \in Instances :
       /\ (/\ call[i].pc = "find"
           /\ call'[i] # call[i]
           /\ \E d \in orphanLocks : d.task_name = call[i].task /\ d.expires_at <= now
           /\ \A d \in taskLocks \ orphanLocks :
                d.task_name = call[i].task => d.expires_at <= now)
          => call'[i].pc = "save"
       /\ (call[i].pc = "save" /\ call'[i] # call[i])
          => /\ call'[i].acquired
             /\ call'[i].pc = "run"
             /\ \E d \in taskLocks' :
                  d.lock_id = call[i].lockId /\ d.task_name = call[i].task]_vars

\* an instance has acquired the lock of a task while the expired lock of the
\* crashed holder of that task is still stored
C30_Witness ==
  \E i \in Instances : \E d \in orphanLocks :
    /\ call[i].pc = "run"
    /\ call[i].acquired
    /\ call[i].task = d.task_name
    /\ d.expires_at <= now
    /\ d.lock_id # call[i].lockId

C7_OneLiveTaskLockPerName ==
  \A task \in TaskNames : Cardinality(activeTaskLocks(taskLocks, task, now)) <= 1

\* C8: of two calls for 'telegram_test' made at the same time with no such
\* lock in the store, exactly one acquires and runs, the other is skipped, and
\* when both have ended no 'telegram_test' TaskLock remains.
C8_ExactlyOneOfTwoAcquires ==
  \A i, j \in Instances :
    (/\ i # j
     /\ call[i].pc = "done" /\ call[j].pc = "done"
     /\ call[i].task = "telegram_test" /\ call[j].task = "telegram_test"
     /\ call[i].sawNone /\ call[j].sawNone
     /\ call[j].raced)
    => /\ call[i].acquired # call[j].acquired
       /\ {d \in taskLocks : d.task_name = "telegram_test"} = {}

----------------------------------------------------------------------------
(* The consumer and the coordinator of one instance.  A callback works on   *)
(* the state e of its instance and of the store: c the consumer, tm the     *)
(* pending timers, tl the TaskLock collection, seq the lock ids generated,  *)
(* ls the Lock collection, k the coordinator.                               *)

Cur(i) == [c |-> con[i], tm |-> timers[i], tl |-> taskLocks, seq |-> lockSeq,
           ls |-> locks, k |-> co[i]]

Apply(i, e) ==
  /\ con' = [con EXCEPT ![i] = e.c]
  /\ timers' = [timers EXCEPT ![i] = e.tm]
  /\ taskLocks' = e.tl
  /\ lockSeq' = e.seq
  /\ locks' = e.ls
  /\ co' = [j \in Instances |->
              IF j = i THEN e.k
              ELSE IF co[j].host = co[i].host /\ co[i].host # "own"
                   THEN [co[j] EXCEPT !.lockFile = e.k.lockFile]
              ELSE co[j]]

\* the timers of instance i that are due
Due(i) == {t \in timers[i] : t.at <= now}

\* setTimeout(k, ticks)
After(e, k, ticks, arg) == [e EXCEPT !.tm = @ \cup {Timer(k, now + ticks, arg)}]

Fired(e, t) == [e EXCEPT !.tm = @ \ {t}]

\* the setInterval callbacks; clearInterval removes them
IntervalKinds == {"masterHb", "execHb", "lockCheck"}

\* the callers of stopBot: the conflict handler, the catch of
\* startBotImplementation, performShutdown, the execution heartbeat, the
\* handler of network errors, the catch of restartPolling
StopKinds == {"stopRestart", "stopCatch", "stopShutdown", "stopLoss", "stopNet", "stopRp"}

\* positions of the start chain that take no time
InstantChain == {"check", "probe", "getMe"}

\* answers of the provider to getMe
Answers == {"ok", "conflict", "error"}

\* min(5000 * 2^count + random * 5000, 60000), in ms
backoffTime(count, random) ==
  LET d == BACKOFF_BASE * (2 ^ count) + random
  IN IF d < BACKOFF_CAP THEN d ELSE BACKOFF_CAP

recentConflict(c, ms) ==
  /\ c.telegramConflictDetected
  /\ c.lastTelegramConflictTime # NoTime
  /\ now - c.lastTelegramConflictTime < Ticks(ms)

\* testTelegramConnection: its 'telegram_test' TaskLock is taken and released
\* within the step; busy: another holder has it
testTelegramConnection(c, busy, answer) ==
  IF recentConflict(c, CONFLICT_COOLDOWN) THEN [ok |-> FALSE, c |-> c]
  ELSE IF busy THEN [ok |-> FALSE, c |-> c]
  ELSE IF answer = "ok"
       THEN [ok |-> TRUE, c |-> [c EXCEPT !.telegramConflictDetected = FALSE]]
  ELSE IF answer = "conflict"
       THEN [ok |-> FALSE, c |-> [c EXCEPT !.telegramConflictDetected = TRUE,
                                           !.lastTelegramConflictTime = now]]
  ELSE [ok |-> FALSE, c |-> c]

telegramTestBusy(tl) == activeTaskLocks(tl, "telegram_test", now) # {}

\* cleanupTelegramTestLocks: expired ones, and ones created over 2 minutes ago
cleanupTelegramTestLocks(tl) ==
  {d \in tl : ~(d.task_name = "telegram_test"
                /\ (d.expires_at < now \/ d.created_at < now - Ticks(2 * FORCE_RECLAIM_AGE)))}

\* the start chain returns: executeWithLock releases 'bot_start'
chainReturns(e) ==
  [e EXCEPT !.tl = releaseTaskLock(@, "bot_start", e.c.chainLock, now),
            !.c.chain = "none", !.c.chainLock = 0]

\* The lock id of the start chain of instance i.  The ids the code generates
\* are unique; an instance has one start chain at a time, so one id for each
\* instance, apart from the ids counted by lockSeq, is unique as well.
chainLockId(i) == IF i = "i1" THEN 0 - 1 ELSE 0 - 2

\* startBot up to the first await of the function it passes to executeWithLock
\* (acquireTaskLock finds and saves in one step here)
startBot(i, e) ==
  IF e.c.isShuttingDown \/ e.c.bot \/ e.c.isBotStarting THEN e
  ELSE IF activeTaskLocks(e.tl, "bot_start", now) # {}
       THEN [e EXCEPT !.c.isBotStarting = TRUE]
  ELSE LET shouldDelay == recentConflict(e.c, CONFLICT_COOLDOWN)
           id == chainLockId(i)
       IN [e EXCEPT !.c.isBotStarting = TRUE,
                    !.c.chain = IF shouldDelay THEN "delay" ELSE "check",
                    !.c.chainLock = id,
                    !.tl = @ \cup {newTaskLock("bot_start", id, i, now, Ticks(TASK_LOCK_TIMEOUT))},
                    !.tm = IF shouldDelay
                           THEN @ \cup {Timer("chainDelay",
                                   e.c.lastTelegramConflictTime + Ticks(CONFLICT_COOLDOWN), 1376)}
                           ELSE @]

\* what the caller of stopBot does when stopBot has returned
afterStop(e, kind, arg) ==
  IF kind = "stopRestart" THEN After(e, "restart", TicksUp(arg), 1153)
  ELSE IF kind = "stopCatch"
       THEN chainReturns(IF e.c.isShuttingDown THEN e
                         ELSE After(e, "startBot", Ticks(START_ERROR_RETRY), 1522))
  ELSE IF kind = "stopShutdown" THEN After(e, "shutdownWait", Ticks(SHUTDOWN_WAIT), 1614)
  ELSE IF kind = "stopNet"
       THEN After([e EXCEPT !.c.networkErrorCount = 0], "restart",
                  Ticks(FULL_RESTART_DELAY), 1185)
  ELSE IF kind = "stopRp" THEN After(e, "restartRp", Ticks(FULL_RESTART_DELAY), 1288)
  ELSE After(e, "lossCleanup", Ticks(REACQUIRE_DELAY), 925)

\* stopBot up to its 5 s wait: the listeners are removed, the polling stopped
stopBot(e, kind, arg) ==
  IF ~e.c.bot THEN afterStop(e, kind, arg)
  ELSE [e EXCEPT !.c.listening = FALSE,
                 !.tm = @ \cup {Timer(kind, now + Ticks(STOP_BOT_WAIT), arg)}]

\* a performShutdown with no test of isShuttingDown
performShutdownAgain(e, reason) ==
  stopBot([e EXCEPT !.c.isShuttingDown = TRUE,
                    !.c.terminationReason = reason,
                    !.tm = {t \in @ : t.k \notin IntervalKinds}],
          "stopShutdown", 0)

\* performShutdown(reason) up to the end of stopBot
performShutdown(e, reason) ==
  IF e.c.isShuttingDown THEN e
  ELSE stopBot([e EXCEPT !.c.isShuttingDown = TRUE,
                         !.c.terminationReason = reason,
                         !.tm = {t \in @ : t.k \notin IntervalKinds}],
               "stopShutdown", 0)

\* releaseAllLocks: the two Lock documents, the TaskLocks, the lock file
releaseAllLocks(i, e) ==
  [e EXCEPT !.ls = {d \in @ : d.instance_id # i},
            !.tl = {d \in @ : d.instance_id # i},
            !.k.lockFile = removeLockFile(@, i)]

----------------------------------------------------------------------------
(* The consumer: start, conflict handling, stop, shutdown *)

\* setTimeout(startBot, ...) fires
TimerStartBot(i) ==
  \E t \in Due(i) :
    /\ t.k = "startBot"
    /\ con[i].chain \notin InstantChain
    /\ Apply(i, startBot(i, Fired(Cur(i), t)))
    /\ UNCHANGED <<tickMs, now, call, obs, hist>>

\* the restart the conflict handler schedules after its back-off fires
TimerRestart(i) ==
  \E t \in Due(i) :
    /\ t.k = "restart"
    /\ con[i].chain \notin InstantChain
    /\ LET e == Fired(Cur(i), t)
       IN IF e.c.isShuttingDown THEN Apply(i, e)
          ELSE Apply(i, startBot(i, [e EXCEPT !.c.isBotStarting = FALSE]))
    /\ UNCHANGED <<tickMs, now, call, obs, hist>>

\* the wait of startBot after a recent conflict is over
ChainDelayDone(i) ==
  \E t \in Due(i) :
    /\ t.k = "chainDelay"
    /\ LET e == Fired(Cur(i), t)
       IN Apply(i, IF e.c.chain = "delay" THEN [e EXCEPT !.c.chain = "check"] ELSE e)
    /\ UNCHANGED <<tickMs, now, call, obs, hist>>

\* startBot: isActiveInstance() has answered
ChainCheck(i, isActive) ==
  /\ con[i].chain = "check"
  /\ LET e == Cur(i)
     IN IF ~isActive
        THEN Apply(i, chainReturns([e EXCEPT !.c.isBotStarting = FALSE]))
        ELSE Apply(i, [e EXCEPT !.c.chain = "probe",
                                !.tl = cleanupTelegramTestLocks(@)])
  /\ UNCHANGED <<tickMs, now, call, obs, hist>>

\* startBotImplementation: testTelegramConnection, then new TelegramBot
ChainProbe(i, answer, random) ==
  /\ con[i].chain = "probe"
  /\ LET e == Cur(i)
         r == testTelegramConnection(e.c, telegramTestBusy(e.tl), answer)
     IN IF ~r.ok
        THEN Apply(i, chainReturns(After([e EXCEPT !.c = [r.c EXCEPT !.isBotStarting = FALSE]],
                                         "startBot", TicksUp(PROBE_RETRY_MIN + random), 1410)))
        ELSE Apply(i, [e EXCEPT !.c = [r.c EXCEPT !.bot = TRUE, !.listening = TRUE,
                                                  !.chain = "getMe"]])
  /\ UNCHANGED <<tickMs, now, call, obs, hist>>

\* startBotImplementation: bot.getMe() resolves, the consumer is connected
GetMeOk(i) ==
  /\ con[i].chain = "getMe"
  /\ Apply(i, chainReturns([Cur(i) EXCEPT !.c.isBotStarting = FALSE,
                                          !.c.pollingRetryCount = 0,
                                          !.c.telegramConflictDetected = FALSE,
                                          !.c.networkErrorCount = 0]))
  /\ obs' = [obs EXCEPT ![i] = [conflictRun |-> 0, lastDelay |-> 0,
                                connects |-> 1 - obs[i].connects]]
  /\ UNCHANGED <<tickMs, now, call, hist>>

\* startBotImplementation: bot.getMe() rejects, the catch block runs
GetMeFail(i) ==
  /\ con[i].chain = "getMe"
  /\ LET e == [Cur(i) EXCEPT !.c.isBotStarting = FALSE, !.c.chain = "catchStop"]
     IN Apply(i, stopBot(e, "stopCatch", 0))
  /\ UNCHANGED <<tickMs, now, call, obs, hist>>

\* the polling_error handler receives a '409 Conflict'
PollingError409(i, random) ==
  /\ con[i].listening
  /\ LET e == [Cur(i) EXCEPT !.c.telegramConflictDetected = TRUE,
                             !.c.lastTelegramConflictTime = now,
                             !.c.pollingRetryCount = @ + 1]
         backoff == backoffTime(e.c.pollingRetryCount, random)
     IN IF e.c.pollingRetryCount > MAX_RETRY_COUNT
        THEN /\ Apply(i, performShutdown(e, "TELEGRAM_CONFLICT"))
             /\ obs' = [obs EXCEPT ![i].conflictRun = @ + 1, ![i].lastDelay = 0]
        ELSE /\ Apply(i, stopBot(e, "stopRestart", backoff))
             /\ obs' = [obs EXCEPT ![i].conflictRun = @ + 1, ![i].lastDelay = backoff]
  /\ UNCHANGED <<tickMs, now, call, hist>>

\* stopBot: its 5 s wait is over
StopBotDone(i) ==
  \E t \in Due(i) :
    /\ t.k \in StopKinds
    \* bot = null: a consumer that restartPolling set polling again during the
    \* wait is no longer referenced, and goes on polling
    /\ LET e == [Fired(Cur(i), t) EXCEPT !.c.orphans = IF con[i].listening THEN @ + 1 ELSE @,
                                         !.c.bot = FALSE, !.c.listening = FALSE,
                                         !.c.pollingRetryCount = 0,
                                         !.c.isBotStarting = FALSE,
                                         !.c.isPollingRestarting = FALSE]
       IN Apply(i, afterStop(e, t.k, t.arg))
    /\ UNCHANGED <<tickMs, now, call, obs, hist>>

\* SIGINT or SIGTERM
Signal(i) ==
  /\ now <= MaxSignalTime
  /\ ~con[i].exited
  /\ ~con[i].isShuttingDown
  /\ Apply(i, performShutdown(Cur(i), "SIGTERM"))
  /\ UNCHANGED <<tickMs, now, call, obs, hist>>

\* performShutdown after its 5 s wait: releaseAllLocks, the resets, the exit timer
ShutdownRelease(i) ==
  \E t \in Due(i) :
    /\ t.k = "shutdownWait"
    /\ LET e == releaseAllLocks(i, Fired(Cur(i), t))
       IN Apply(i, After([e EXCEPT !.c.pollingRetryCount = 0,
                                   !.c.telegramConflictDetected = FALSE,
                                   !.c.lastTelegramConflictTime = NoTime,
                                   !.c.isBotStarting = FALSE,
                                   !.c.networkErrorCount = 0],
                         "exit", Ticks(SHUTDOWN_TIMEOUT), 1653))
    /\ UNCHANGED <<tickMs, now, call, obs, hist>>

\* process.exit
Exit(i) ==
  \E t \in Due(i) :
    /\ t.k = "exit"
    /\ Apply(i, [Cur(i) EXCEPT !.c = [NoConsumer EXCEPT !.exited = TRUE,
                                                        !.isShuttingDown = TRUE],
                               !.tm = {},
                               !.k = [NoCoordinator EXCEPT !.lockFile = co[i].lockFile,
                                                           !.host = co[i].host]])
    /\ UNCHANGED <<tickMs, now, call, obs, hist>>

\* nothing of instance i is left to run in this tick
Settled(i) ==
  /\ Due(i) = {}
  /\ con[i].chain \notin InstantChain
  /\ co[i].pc = "none"

----------------------------------------------------------------------------
(* PollSpec: the consumer of the instance that holds the execution lease,   *)
(* against a provider that may answer anything; the answer of               *)
(* isActiveInstance is an input.                                            *)

Leader == "i1"

PollTick ==
  /\ now < PollMaxTime
  /\ \A i \in Instances : Settled(i)
  /\ now' = now + 1
  /\ UNCHANGED <<tickMs, taskLocks, lockSeq, call, conVars, leaseVars>>

\* the execution lease was acquired: startBot is due in 5 s
PollInit ==
  /\ tickMs = TimerTickMs
  /\ now = 0
  /\ taskLocks = {}
  /\ lockSeq = 0
  /\ call = [i \in Instances |-> NoCall]
  /\ con = [i \in Instances |->
              IF i = Leader THEN NoConsumer ELSE [NoConsumer EXCEPT !.exited = TRUE]]
  /\ timers = [i \in Instances |->
                 IF i = Leader THEN {Timer("startBot", Ticks(START_BOT_DELAY), 818)} ELSE {}]
  /\ obs = [i \in Instances |-> NoObs]
  /\ locks = {}
  /\ co = [i \in Instances |-> NoCoordinator]
  /\ hist = NoHist

PollNext ==
  \/ \E i \in Instances :
       \/ TimerStartBot(i)
       \/ TimerRestart(i)
       \/ ChainDelayDone(i)
       \/ \E isActive \in BOOLEAN : ChainCheck(i, isActive)
       \/ \E answer \in Answers, random \in RandomOf(PROBE_RETRY_SPREAD) :
            ChainProbe(i, answer, random)
       \/ GetMeOk(i)
       \/ GetMeFail(i)
       \/ \E random \in RandomOf(BACKOFF_BASE) : PollingError409(i, random)
       \/ StopBotDone(i)
       \/ Signal(i)
       \/ ShutdownRelease(i)
       \/ Exit(i)
  \/ PollTick

PollSpec == PollInit /\ [][PollNext]_vars

----------------------------------------------------------------------------
(* Claims about the conflict handling, checked under PollSpec *)

\* C9: over a run of consecutive '409 Conflict' errors with no successful
\* connection in between, the retry delay chosen for an error is not smaller
\* than the one chosen for the previous error; and a successful connection of
\* the consumer leaves pollingRetryCount at zero.
C9_BackoffNonDecreasing ==
  [][\A i \in Instances :
       /\ (/\ obs'[i].conflictRun = obs[i].conflictRun + 1
           /\ obs[i].lastDelay > 0
           /\ obs'[i].lastDelay > 0)
          => obs'[i].lastDelay >= obs[i].lastDelay
       /\ (obs'[i].connects # obs[i].connects) => con'[i].pollingRetryCount = 0]_vars

\* C10: after more than MAX_RETRY_COUNT consecutive '409 Conflict' errors with
\* no successful connection in between, the instance has requested its
\* shutdown.
C10_GivesUpAfterMaxRetries ==
  \A i \in Instances :
    obs[i].conflictRun > MAX_RETRY_COUNT => con[i].isShuttingDown

\* stopBot of instance i returns in this step: its caller goes on (the restart
\* timer, the 5 s wait of performShutdown, the clean-up after a lost lock are
\* set, or the catch of startBotImplementation ends)
stopBotReturns(i) ==
  \/ \E t \in timers'[i] \ timers[i] : t.k \in {"restart", "shutdownWait", "lossCleanup"}
  \/ con[i].chain = "catchStop" /\ con'[i].chain = "none"

\* C11: in whatever state stopBot is called, when it returns the consumer is
\* stopped (no bot, no handler, no polling) and pollingRetryCount and
\* isBotStarting are reset.
C11_StopBotResets ==
  [][\A i \in Instances :
       stopBotReturns(i)
         => /\ ~con'[i].bot
            /\ ~con'[i].listening
            /\ con'[i].pollingRetryCount = 0
            /\ ~con'[i].isBotStarting]_vars

----------------------------------------------------------------------------
(* The Lock collection.  `name` has a unique index; the store deletes a     *)
(* document LOCK_TTL after `created_at`.                                    *)

newLock(name, i, t) ==
  [name |-> name,
   lock_type |-> IF name = "master_lock" THEN "master" ELSE "execution",
   instance_id |-> i, created_at |-> t, last_heartbeat |-> t]

\* a lock that is never taken for stale
isActiveLockForever(d, t) == d.last_heartbeat <= t

\* last_heartbeat: { $gt: now - GLOBAL_LOCK_TIMEOUT }
isActiveLock(d, t) == d.last_heartbeat > t - Ticks(GLOBAL_LOCK_TIMEOUT)

\* a filter that takes every lock for stale
isStaleLockAnyAge(d, t) == d.last_heartbeat <= t

\* last_heartbeat: { $lt: now - GLOBAL_LOCK_TIMEOUT }
isStaleLock(d, t) == d.last_heartbeat < t - Ticks(GLOBAL_LOCK_TIMEOUT)

\* mutant: the collection has no unique index
saveLockNoIndex(ls, d) == [ok |-> TRUE, ls |-> ls \cup {d}]

\* lock.save() of a new document: a duplicate key error when the name exists
saveLock(ls, d) ==
  IF \E x \in ls : x.name = d.name THEN [ok |-> FALSE, ls |-> ls]
  ELSE [ok |-> TRUE, ls |-> ls \cup {d}]

\* lock.last_heartbeat = new Date(); lock.save()
refreshHeartbeat(ls, d, t) == (ls \ {d}) \cup {[d EXCEPT !.last_heartbeat = t]}

\* an acquisition that leaves the heartbeat of its own lock as it was
keepOwnLock(ls, d, t) == ls

\* an acquisition that has found its own lock: existingLock.last_heartbeat =
\* new Date(); existingLock.save()
updateOwnLock(ls, d, t) == refreshHeartbeat(ls, d, t)

masterLocks(ls) == {d \in ls : d.name = "master_lock" /\ d.lock_type = "master"}

executionLocks(ls) == {d \in ls : d.name = "execution_lock" /\ d.lock_type = "execution"}

\* only the second query: no execution lock of another instance
isActiveInstanceUnlessOther(i, ls, t) ==
  ~\E n \in executionLocks(ls) : n.instance_id # i

\* isActiveInstance: an own execution lock with a heartbeat within
\* GLOBAL_LOCK_TIMEOUT and no execution lock of another instance with a later one
isActiveInstance(i, ls, t) ==
  \E d \in executionLocks(ls) :
    /\ d.instance_id = i
    /\ isActiveLock(d, t)
    /\ ~\E n \in executionLocks(ls) :
          n.instance_id # i /\ n.last_heartbeat > d.last_heartbeat

\* cleanupExpiredTaskLocks
cleanupExpiredTaskLocks(tl) == cleanupTelegramTestLocks({d \in tl : ~(d.expires_at < now)})

\* startMasterLockHeartbeat, startExecutionLockHeartbeat, startLockCheck
startInterval(e, k, ms) ==
  [e EXCEPT !.tm = {t \in @ : t.k # k} \cup {Timer(k, now + Ticks(ms), 0)}]

\* the interval is left running
keepInterval(e, k) == e

clearInterval(e, k) == [e EXCEPT !.tm = {t \in @ : t.k # k}]

\* the provider is reachable: it answers getMe (a '409 Conflict' is its
\* answer to a second getUpdates, never to getMe)
AnswersTo(i) == {"ok"}

\* acquireMasterLock up to its first query of the Lock collection
acquireMasterLock(e, answer, random) ==
  IF e.c.isShuttingDown THEN e
  ELSE LET r == testTelegramConnection(e.c, telegramTestBusy(e.tl), answer)
       IN IF ~r.ok
          THEN After([e EXCEPT !.c = r.c], "acquireMaster", TicksUp(PROBE_RETRY_MIN + random), 616)
          ELSE [e EXCEPT !.c = r.c, !.k.pc = "am_findExec"]

\* an acquireExecutionLock without the limit on the rate of its attempts
acquireExecutionLockAtOnce(e, answer, jitter, random) ==
  IF e.c.isShuttingDown THEN [e EXCEPT !.k.pc = "none"]
  ELSE LET r == testTelegramConnection(e.c, telegramTestBusy(e.tl), answer)
           e1 == [e EXCEPT !.c = r.c, !.k.lastConnectionAttemptTime = now]
       IN IF ~r.ok
          THEN After([e1 EXCEPT !.k.pc = "none"], "acquireExec",
                     TicksUp(PROBE_RETRY_MIN + random), 744)
          ELSE [e1 EXCEPT !.k.pc = "ae_find"]

\* acquireExecutionLock up to its first query of the Lock collection
acquireExecutionLock(e, answer, jitter, random) ==
  IF e.c.isShuttingDown THEN [e EXCEPT !.k.pc = "none"]
  ELSE IF /\ e.k.lastConnectionAttemptTime # NoTime
          /\ now - e.k.lastConnectionAttemptTime < Ticks(CONNECTION_ATTEMPT_COOLDOWN)
       THEN LET waitTime == CONNECTION_ATTEMPT_COOLDOWN
                              - (now - e.k.lastConnectionAttemptTime) * tickMs
            IN After([e EXCEPT !.k.pc = "none"], "acquireExec", TicksUp(waitTime + jitter), 729)
  ELSE LET r == testTelegramConnection(e.c, telegramTestBusy(e.tl), answer)
           e1 == [e EXCEPT !.c = r.c, !.k.lastConnectionAttemptTime = now]
       IN IF ~r.ok
          THEN After([e1 EXCEPT !.k.pc = "none"], "acquireExec",
                     TicksUp(PROBE_RETRY_MIN + random), 744)
          ELSE [e1 EXCEPT !.k.pc = "ae_find"]

----------------------------------------------------------------------------
(* The coordinator: start, acquisition of the two locks, heartbeats, check *)

\* initializeBot after its initial delay: checkGlobalConnectionState
TimerBoot(i, random) ==
  \E t \in Due(i) :
    /\ t.k = "boot"
    /\ co[i].pc = "none"
    /\ LET e == [Fired(Cur(i), t) EXCEPT !.tl = cleanupExpiredTaskLocks(@)]
           others == {d \in locks : /\ d.lock_type = "execution"
                                     /\ isActiveLock(d, now)}
           canProceed == others = {} \/ \E d \in others : d.instance_id = i
       IN Apply(i, After(e, "acquireMaster",
                         IF canProceed THEN 0 ELSE TicksUp(INIT_EXTRA_WAIT_MIN + random), 594))
    /\ UNCHANGED <<tickMs, now, call, obs, hist>>

\* acquireMasterLock is called
TimerAcquireMaster(i, answer, random) ==
  \E t \in Due(i) :
    /\ t.k = "acquireMaster"
    /\ co[i].pc = "none"
    /\ Apply(i, acquireMasterLock(Fired(Cur(i), t), answer, random))
    /\ UNCHANGED <<tickMs, now, call, obs, hist>>

\* a query that finds no execution lock
findNoExecution(ls, t) == {}

\* Lock.findOne({lock_type: 'execution', last_heartbeat: {$gt: now - GLOBAL_LOCK_TIMEOUT}})
findActiveExecution(ls, t) ==
  {d \in ls : d.lock_type = "execution" /\ isActiveLock(d, t)}

\* acquireMasterLock: is there an active execution lock
AmFindExec(i, random) ==
  /\ co[i].pc = "am_findExec"
  /\ LET e == Cur(i)
         active == findActiveExecution(locks, now)
     IN IF active = {}
        THEN Apply(i, [e EXCEPT !.k.pc = "am_delStale"])
        ELSE \E d \in active :
               IF d.instance_id = i
               THEN Apply(i, [e EXCEPT !.k.pc = "am_delStale"])
               ELSE Apply(i, After([e EXCEPT !.k.pc = "none"], "acquireMaster",
                                   TicksUp(ACTIVE_RETRY_MIN + random), 638))
  /\ UNCHANGED <<tickMs, now, call, obs, hist>>

\* acquireMasterLock: Lock.deleteMany of the stale locks of any name
AmDelStale(i) ==
  /\ co[i].pc = "am_delStale"
  /\ Apply(i, [Cur(i) EXCEPT !.ls = {d \in @ : ~isStaleLock(d, now)},
                             !.k.pc = "am_findMaster"])
  /\ hist' = IF \E d \in executionLocks(locks) : isStaleLock(d, now) /\ d.instance_id # i
             THEN [hist EXCEPT !.forced = now] ELSE hist
  /\ UNCHANGED <<tickMs, now, call, obs>>

\* acquireMasterLock: is there an active master lock
AmFindMaster(i) ==
  /\ co[i].pc = "am_findMaster"
  /\ LET e == Cur(i)
         active == {d \in masterLocks(locks) : isActiveLock(d, now)}
     IN IF active = {}
        THEN Apply(i, [e EXCEPT !.k.pc = "am_delStaleMaster"])
        ELSE \E d \in active :
               IF d.instance_id # i
               THEN Apply(i, After([e EXCEPT !.k.pc = "none"], "acquireMaster",
                                   Ticks(MASTER_HELD_RETRY), 665))
               ELSE Apply(i, [e EXCEPT !.ls = updateOwnLock(@, d, now),
                                       !.k.pc = "ae_entry"])
  /\ hist' = [hist EXCEPT !.reentered =
                @ \/ \E d \in masterLocks(locks) : d.instance_id = i /\ isActiveLock(d, now)]
  /\ UNCHANGED <<tickMs, now, call, obs>>

\* acquireMasterLock: Lock.deleteMany of the stale master locks
AmDelStaleMaster(i) ==
  /\ co[i].pc = "am_delStaleMaster"
  /\ Apply(i, [Cur(i) EXCEPT !.ls = {d \in @ : ~(d \in masterLocks(locks) /\ isStaleLock(d, now))},
                             !.k.pc = "am_save"])
  /\ UNCHANGED <<tickMs, now, call, obs, hist>>

\* a catch that ends the process: the acquisition is not tried again
catchAndShutDown(e, k, delay, arg) ==
  [e EXCEPT !.k.pc = "none", !.c.isShuttingDown = TRUE, !.c.exited = TRUE]

\* the catch of acquireMasterLock and of acquireExecutionLock: the error is
\* logged and, unless the instance is shutting down, the function is set to
\* run again after delay ms
catchAndRetry(e, k, delay, arg) ==
  IF e.c.isShuttingDown THEN [e EXCEPT !.k.pc = "none"]
  ELSE After([e EXCEPT !.k.pc = "none"], k, Ticks(delay), arg)

\* acquireMasterLock: the new master lock is saved
AmSave(i) ==
  /\ co[i].pc = "am_save"
  /\ LET e == Cur(i)
         r == saveLock(locks, newLock("master_lock", i, now))
     IN IF r.ok
        THEN Apply(i, startInterval([e EXCEPT !.ls = r.ls, !.k.pc = "ae_entry"],
                                    "masterHb", MASTER_HEARTBEAT_PERIOD))
        ELSE Apply(i, catchAndRetry(e, "acquireMaster", MASTER_ERROR_RETRY, 707))
  /\ UNCHANGED <<tickMs, now, call, obs, hist>>

\* acquireMasterLock calls acquireExecutionLock
AeEntry(i, answer, jitter, random) ==
  /\ co[i].pc = "ae_entry"
  /\ Apply(i, acquireExecutionLock(Cur(i), answer, jitter, random))
  /\ UNCHANGED <<tickMs, now, call, obs, hist>>

\* a timer calls acquireExecutionLock
TimerAcquireExec(i, answer, jitter, random) ==
  \E t \in Due(i) :
    /\ t.k = "acquireExec"
    /\ co[i].pc = "none"
    /\ Apply(i, acquireExecutionLock(Fired(Cur(i), t), answer, jitter, random))
    /\ UNCHANGED <<tickMs, now, call, obs, hist>>

\* acquireExecutionLock: is there an active execution lock
AeFind(i) ==
  /\ co[i].pc = "ae_find"
  /\ LET e == [Cur(i) EXCEPT !.k.pc = "none"]
         active == {d \in executionLocks(locks) : isActiveLock(d, now)}
     IN IF active = {}
        THEN Apply(i, [e EXCEPT !.k.pc = "ae_delStale"])
        ELSE \E d \in active :
               IF d.instance_id # i
               THEN Apply(i, After(e, "acquireExec", Ticks(EXECUTION_HELD_RETRY), 761))
               ELSE Apply(i, startBot(i, [e EXCEPT !.ls = updateOwnLock(@, d, now)]))
  /\ UNCHANGED <<tickMs, now, call, obs, hist>>

\* acquireExecutionLock: Lock.deleteMany of the stale execution locks
AeDelStale(i) ==
  /\ co[i].pc = "ae_delStale"
  /\ Apply(i, [Cur(i) EXCEPT !.ls = {d \in @ : ~(d \in executionLocks(locks) /\ isStaleLock(d, now))},
                             !.k.pc = "ae_save"])
  /\ hist' = IF \E d \in executionLocks(locks) : isStaleLock(d, now) /\ d.instance_id # i
             THEN [hist EXCEPT !.forced = now] ELSE hist
  /\ UNCHANGED <<tickMs, now, call, obs>>

\* acquireExecutionLock: the new execution lock is saved
AeSave(i) ==
  /\ co[i].pc = "ae_save"
  /\ LET e == [Cur(i) EXCEPT !.k.pc = "none"]
         r == saveLock(locks, newLock("execution_lock", i, now))
     IN IF r.ok
        THEN Apply(i, After(startInterval(startInterval([e EXCEPT !.ls = r.ls,
                                                                  !.k.lockFile = createLockFile(@, i)],
                                                        "execHb", EXECUTION_HEARTBEAT_PERIOD),
                                          "lockCheck", LOCK_CHECK_PERIOD),
                            "startBot", Ticks(START_BOT_DELAY), 818))
        ELSE Apply(i, catchAndRetry(e, "acquireExec", EXECUTION_ERROR_RETRY, 828))
  /\ UNCHANGED <<tickMs, now, call, obs, hist>>

\* a tick of the master heartbeat ('master_heartbeat' is taken and released
\* within the step)
MasterHeartbeat(i) ==
  \E t \in Due(i) :
    /\ t.k = "masterHb"
    /\ co[i].pc = "none"
    /\ LET e == After(Fired(Cur(i), t), "masterHb", Ticks(MASTER_HEARTBEAT_PERIOD), 0)
           own == {d \in masterLocks(locks) : d.instance_id = i}
       IN IF e.c.isShuttingDown THEN Apply(i, e)
          ELSE IF own # {}
               THEN \E d \in own : Apply(i, [e EXCEPT !.ls = refreshHeartbeat(@, d, now)])
          ELSE Apply(i, After(clearInterval(e, "masterHb"), "acquireMaster",
                              Ticks(REACQUIRE_DELAY), 864))
    /\ UNCHANGED <<tickMs, now, call, obs, hist>>

\* a tick of the execution heartbeat ('execution_heartbeat' is taken and
\* released within the step)
ExecutionHeartbeat(i) ==
  \E t \in Due(i) :
    /\ t.k = "execHb"
    /\ co[i].pc = "none"
    /\ LET e == After(Fired(Cur(i), t), "execHb", Ticks(EXECUTION_HEARTBEAT_PERIOD), 0)
           own == {d \in executionLocks(locks) : d.instance_id = i}
       IN IF e.c.isShuttingDown THEN Apply(i, e)
          ELSE IF own # {}
               THEN \E d \in own :
                      Apply(i, [e EXCEPT !.tl = cleanupTelegramTestLocks(@),
                                         !.ls = refreshHeartbeat(@, d, now)])
          ELSE Apply(i, stopBot([clearInterval(e, "execHb") EXCEPT
                                    !.tl = cleanupTelegramTestLocks(@)],
                                "stopLoss", 0))
    /\ UNCHANGED <<tickMs, now, call, obs, hist>>

\* the execution heartbeat, 5 s after it found the lock missing
LossCleanup(i, random) ==
  \E t \in Due(i) :
    /\ t.k = "lossCleanup"
    /\ LET e == Fired(Cur(i), t)
       IN IF e.c.isShuttingDown THEN Apply(i, e)
          ELSE Apply(i, After([e EXCEPT !.tl = cleanupTelegramTestLocks(@)],
                              "acquireExec", TicksUp(REACQUIRE_DELAY + random), 931))
    /\ UNCHANGED <<tickMs, now, call, obs, hist>>

\* a lock check that stops the consumer when a lock is missing
stopOnMissingLock(e, masterLost, executionLost) ==
  IF masterLost \/ executionLost
  THEN [e EXCEPT !.c.listening = FALSE]
  ELSE e

\* startLockCheck: setTimeout(acquireMasterLock, 5000) when the master lock is
\* missing, setTimeout(acquireExecutionLock, 5000) when the execution lock is
scheduleReacquire(e, masterLost, executionLost) ==
  LET e2 == IF masterLost
            THEN After(e, "acquireMaster", Ticks(REACQUIRE_DELAY), 993) ELSE e
  IN IF executionLost
     THEN After(e2, "acquireExec", Ticks(REACQUIRE_DELAY), 1000) ELSE e2

\* a tick of the lock check ('lock_check' is taken and released within the step)
LockCheck(i) ==
  \E t \in Due(i) :
    /\ t.k = "lockCheck"
    /\ co[i].pc = "none"
    /\ LET e == After(Fired(Cur(i), t), "lockCheck", Ticks(LOCK_CHECK_PERIOD), 0)
           masterLock == {d \in masterLocks(locks) : d.instance_id = i}
           executionLock == {d \in executionLocks(locks) : d.instance_id = i}
           otherActiveLocks == {d \in executionLocks(locks) :
                                  d.instance_id # i /\ isActiveLock(d, now)}
           e1 == [e EXCEPT !.tl = cleanupExpiredTaskLocks(@),
                           !.k.lockFile = IF checkLockFile(@, i) THEN @
                                          ELSE createLockFile(@, i)]
           e3 == scheduleReacquire(e1, masterLock = {}, executionLock = {})
       IN IF e.c.isShuttingDown THEN Apply(i, e)
          ELSE IF /\ otherActiveLocks # {}
                  /\ executionLock # {}
                  /\ recentConflict(e.c, RECENT_CONFLICT)
               THEN Apply(i, performShutdown(e3, "CONFLICT_AVOIDANCE"))
          ELSE Apply(i, e3)
    /\ hist' = [hist EXCEPT !.recreated =
                  @ \/ (~con[i].isShuttingDown /\ ~checkLockFile(co[i].lockFile, i))]
    /\ UNCHANGED <<tickMs, now, call, obs>>

\* the TTL monitor of the store deletes a Lock LOCK_TTL after its creation
LockTTL ==
  /\ \E d \in locks :
       /\ now - d.created_at >= Ticks(LOCK_TTL)
       /\ locks' = locks \ {d}
  /\ UNCHANGED <<tickMs, now, taskLocks, lockSeq, call, conVars, co, hist>>

\* the instance whose consumer runs under its execution lock
isLeader(i) ==
  /\ con[i].listening
  /\ \E d \in executionLocks(locks) : d.instance_id = i /\ isActiveLock(d, now)

holdsBoth(i) ==
  /\ \E d \in masterLocks(locks) : d.instance_id = i /\ isActiveLock(d, now)
  /\ \E d \in executionLocks(locks) : d.instance_id = i /\ isActiveLock(d, now)

\* instance i is running and is to call acquireMasterLock or acquireExecutionLock
isRetrying(i) ==
  /\ ~con[i].exited
  /\ ~con[i].isShuttingDown
  /\ \/ co[i].pc # "none"
     \/ \E t \in timers[i] : t.k \in {"boot", "acquireMaster", "acquireExec"}

\* the process of the leader dies: its timers and its consumer are gone, its
\* locks stay in the store
LeaderCrash(i) ==
  /\ now <= MaxCrashTime
  /\ hist.crashed = "none"
  /\ ~con[i].exited
  /\ isLeader(i)
  /\ con' = [con EXCEPT ![i] = [NoConsumer EXCEPT !.exited = TRUE]]
  /\ timers' = [timers EXCEPT ![i] = {}]
  /\ co' = [co EXCEPT ![i] = [NoCoordinator EXCEPT !.lockFile = co[i].lockFile,
                                                     !.host = co[i].host]]
  /\ hist' = [hist EXCEPT
       !.crashed = i,
       !.crashHb = (CHOOSE d \in executionLocks(locks) : d.instance_id = i).last_heartbeat,
       !.waiting = \E j \in Instances : j # i /\ isRetrying(j)]
  /\ UNCHANGED <<tickMs, now, taskLocks, lockSeq, call, obs, locks>>

----------------------------------------------------------------------------
(* LeaseSpec: the instances start together against an empty store.  The     *)
(* provider answers every request; the conflicts of the long poll are the   *)
(* subject of PollSpec.                                                     *)

LeaseTick ==
  /\ now < LeaseMaxTime
  /\ \A i \in Instances : Settled(i)
  /\ \A d \in locks : now - d.created_at < Ticks(LOCK_TTL) + TtlLag
  /\ now' = now + 1
  /\ hist' = [hist EXCEPT !.tookOver =
                @ \/ (hist.crashed # "none"
                      /\ \E j \in Instances : j # hist.crashed /\ holdsBoth(j))]
  /\ UNCHANGED <<tickMs, taskLocks, lockSeq, call, conVars, locks, co>>

\* initializeBot waits MIN_INITIAL_DELAY + floor(random * (MAX - MIN))
LeaseInit ==
  /\ tickMs = TimerTickMs
  /\ now = 0
  /\ taskLocks = {}
  /\ lockSeq = 0
  /\ call = [i \in Instances |-> NoCall]
  /\ con = [i \in Instances |-> NoConsumer]
  /\ \E r \in RandomOf(MAX_INITIAL_DELAY - MIN_INITIAL_DELAY) :
       timers = [i \in Instances |->
                   {Timer("boot", TicksUp(MIN_INITIAL_DELAY + (IF i = Leader THEN 0 ELSE r)), 584)}]
  /\ obs = [i \in Instances |-> NoObs]
  /\ locks = {}
  /\ co = [i \in Instances |-> NoCoordinator]
  /\ hist = NoHist

LeaseNext ==
  \/ \E i \in Instances :
       \/ \E random \in RandomOf(INIT_EXTRA_WAIT_SPREAD) : TimerBoot(i, random)
       \/ \E answer \in AnswersTo(i), random \in RandomOf(PROBE_RETRY_SPREAD) :
            TimerAcquireMaster(i, answer, random)
       \/ \E random \in RandomOf(ACTIVE_RETRY_SPREAD) : AmFindExec(i, random)
       \/ AmDelStale(i)
       \/ AmFindMaster(i)
       \/ AmDelStaleMaster(i)
       \/ AmSave(i)
       \/ \E answer \in AnswersTo(i), jitter \in RandomOf(COOLDOWN_JITTER),
             random \in RandomOf(PROBE_RETRY_SPREAD) :
            \/ AeEntry(i, answer, jitter, random)
            \/ TimerAcquireExec(i, answer, jitter, random)
       \/ AeFind(i)
       \/ AeDelStale(i)
       \/ AeSave(i)
       \/ MasterHeartbeat(i)
       \/ ExecutionHeartbeat(i)
       \/ \E random \in RandomOf(REACQUIRE_JITTER) : LossCleanup(i, random)
       \/ LockCheck(i)
       \/ TimerStartBot(i)
       \/ ChainCheck(i, isActiveInstance(i, locks, now))
       \/ \E answer \in AnswersTo(i), random \in RandomOf(PROBE_RETRY_SPREAD) :
            ChainProbe(i, answer, random)
       \/ GetMeOk(i)
       \/ StopBotDone(i)
       \/ LeaderCrash(i)
  \/ LockTTL
  \/ LeaseTick

LeaseSpec == LeaseInit /\ [][LeaseNext]_vars

(***************************************************************************)
(* The acquisitions when a call of the store throws (FailSpec)             *)
(***************************************************************************)

\* the positions of acquireMasterLock at which the next statement is a call
\* of the store: findOne, deleteMany, findOne, deleteMany, save
masterStoreSteps ==
  {"am_findExec", "am_delStale", "am_findMaster", "am_delStaleMaster", "am_save"}

\* the positions of acquireExecutionLock at which the next statement is a call
\* of the store: findOne, deleteMany, save
executionStoreSteps == {"ae_find", "ae_delStale", "ae_save"}

\* the call of the store that instance i is about to make throws: control
\* goes to the catch of the function that made the call, also when
\* acquireMasterLock is awaiting acquireExecutionLock
StoreFails(i) ==
  /\ hist.failures < MaxStoreFailures
  /\ co[i].pc \in masterStoreSteps \cup executionStoreSteps
  /\ Apply(i, IF co[i].pc \in masterStoreSteps
               THEN catchAndRetry(Cur(i), "acquireMaster", MASTER_ERROR_RETRY, 707)
               ELSE catchAndRetry(Cur(i), "acquireExec", EXECUTION_ERROR_RETRY, 828))
  /\ hist' = [hist EXCEPT !.failures = @ + 1, !.failed = i]
  /\ UNCHANGED <<tickMs, now, call, obs>>

\* the clock of FailSpec: no lock lives long enough to expire
FailTick ==
  /\ now < FailMaxTime
  /\ \A i \in Instances : Settled(i)
  /\ now' = now + 1
  /\ UNCHANGED <<tickMs, taskLocks, lockSeq, call, conVars, locks, co, hist>>

FailNext ==
  \/ \E i \in Instances :
       \/ \E random \in RandomOf(INIT_EXTRA_WAIT_SPREAD) : TimerBoot(i, random)
       \/ \E answer \in AnswersTo(i), random \in RandomOf(PROBE_RETRY_SPREAD) :
            TimerAcquireMaster(i, answer, random)
       \/ \E random \in RandomOf(ACTIVE_RETRY_SPREAD) : AmFindExec(i, random)
       \/ AmDelStale(i)
       \/ AmFindMaster(i)
       \/ AmDelStaleMaster(i)
       \/ AmSave(i)
       \/ \E answer \in AnswersTo(i), jitter \in RandomOf(COOLDOWN_JITTER),
             random \in RandomOf(PROBE_RETRY_SPREAD) :
            \/ AeEntry(i, answer, jitter, random)
            \/ TimerAcquireExec(i, answer, jitter, random)
       \/ AeFind(i)
       \/ AeDelStale(i)
       \/ AeSave(i)
       \/ MasterHeartbeat(i)
       \/ ExecutionHeartbeat(i)
       \/ LockCheck(i)
       \/ TimerStartBot(i)
       \/ ChainCheck(i, isActiveInstance(i, locks, now))
       \/ \E answer \in AnswersTo(i), random \in RandomOf(PROBE_RETRY_SPREAD) :
            ChainProbe(i, answer, random)
       \/ GetMeOk(i)
       \/ StoreFails(i)
  \/ FailTick

FailSpec == LeaseInit /\ [][FailNext]_vars

----------------------------------------------------------------------------
(* ShutSpec: the instances start together against an empty store; SIGINT or *)
(* SIGTERM may reach any of them at any point of an acquisition or of a     *)
(* start, and the provider may answer the long poll with a '409 Conflict'.  *)
(* The horizon ends before the TTL of the first Lock.                       *)

ShutTick ==
  /\ now < ShutMaxTime
  /\ \A i \in Instances : Settled(i)
  /\ now' = now + 1
  /\ UNCHANGED <<tickMs, taskLocks, lockSeq, call, conVars, leaseVars>>

ShutNext ==
  \/ \E i \in Instances :
       \/ \E random \in RandomOf(INIT_EXTRA_WAIT_SPREAD) : TimerBoot(i, random)
       \/ \E answer \in AnswersTo(i), random \in RandomOf(PROBE_RETRY_SPREAD) :
            TimerAcquireMaster(i, answer, random)
       \/ \E random \in RandomOf(ACTIVE_RETRY_SPREAD) : AmFindExec(i, random)
       \/ AmDelStale(i)
       \/ AmFindMaster(i)
       \/ AmDelStaleMaster(i)
       \/ AmSave(i)
       \/ \E answer \in AnswersTo(i), jitter \in RandomOf(COOLDOWN_JITTER),
             random \in RandomOf(PROBE_RETRY_SPREAD) :
            AeEntry(i, answer, jitter, random)
       \/ AeFind(i)
       \/ AeDelStale(i)
       \/ AeSave(i)
       \/ MasterHeartbeat(i)
       \/ ExecutionHeartbeat(i)
       \/ LockCheck(i)
       \/ TimerStartBot(i)
       \/ TimerRestart(i)
       \/ ChainDelayDone(i)
       \/ ChainCheck(i, isActiveInstance(i, locks, now))
       \/ \E answer \in AnswersTo(i), random \in RandomOf(PROBE_RETRY_SPREAD) :
            ChainProbe(i, answer, random)
       \/ GetMeOk(i)
       \/ PollingError409(i, 0)
       \/ StopBotDone(i)
       \/ Signal(i)
       \/ ShutdownRelease(i)
       \/ Exit(i)
  \/ ShutTick

ShutSpec == LeaseInit /\ [][ShutNext]_vars

\* performShutdown goes on after its 5 s wait and one of its awaits never
\* resolves: a call of releaseAllLocks (stage "release": nothing is released),
\* or saveStartupNotification or mongoose.connection.close() (stage "close":
\* the locks are released and the flags reset).  The function never reaches
\* the setTimeout of process.exit.
ShutdownStalls(i, stage) ==
  \E t \in Due(i) :
    /\ t.k = "shutdownWait"
    /\ LET e == Fired(Cur(i), t)
           r == releaseAllLocks(i, e)
       IN Apply(i, IF stage = "release" THEN e
                   ELSE [r EXCEPT !.c.pollingRetryCount = 0,
                                  !.c.telegramConflictDetected = FALSE,
                                  !.c.lastTelegramConflictTime = NoTime,
                                  !.c.isBotStarting = FALSE,
                                  !.c.networkErrorCount = 0])
    /\ UNCHANGED <<tickMs, now, call, obs, hist>>

\* The steps of ShutSpec with awaits of performShutdown that may never complete
HaltSignal(i) == now <= HaltMaxSignalTime /\ Signal(i)

HaltTick ==
  /\ now < HaltMaxTime
  /\ \A i \in Instances : Settled(i)
  /\ now' = now + 1
  /\ UNCHANGED <<tickMs, taskLocks, lockSeq, call, conVars, leaseVars>>

HaltNext ==
  \/ \E i \in Instances :
       \/ \E random \in RandomOf(INIT_EXTRA_WAIT_SPREAD) : TimerBoot(i, random)
       \/ \E answer \in AnswersTo(i), random \in RandomOf(PROBE_RETRY_SPREAD) :
            TimerAcquireMaster(i, answer, random)
       \/ \E random \in RandomOf(ACTIVE_RETRY_SPREAD) : AmFindExec(i, random)
       \/ AmDelStale(i)
       \/ AmFindMaster(i)
       \/ AmDelStaleMaster(i)
       \/ AmSave(i)
       \/ \E answer \in AnswersTo(i), jitter \in RandomOf(COOLDOWN_JITTER),
             random \in RandomOf(PROBE_RETRY_SPREAD) :
            AeEntry(i, answer, jitter, random)
       \/ AeFind(i)
       \/ AeDelStale(i)
       \/ AeSave(i)
       \/ MasterHeartbeat(i)
       \/ ExecutionHeartbeat(i)
       \/ LockCheck(i)
       \/ TimerStartBot(i)
       \/ TimerRestart(i)
       \/ ChainDelayDone(i)
       \/ ChainCheck(i, isActiveInstance(i, locks, now))
       \/ \E answer \in AnswersTo(i), random \in RandomOf(PROBE_RETRY_SPREAD) :
            ChainProbe(i, answer, random)
       \/ GetMeOk(i)
       \/ PollingError409(i, 0)
       \/ StopBotDone(i)
       \/ HaltSignal(i)
       \/ ShutdownRelease(i)
       \/ Exit(i)
  \/ HaltTick
  \/ \E i \in Instances, stage \in {"release", "close"} : ShutdownStalls(i, stage)

HaltSpec == LeaseInit /\ [][HaltNext]_vars

----------------------------------------------------------------------------
(* ReqSpec: the shutdown with several requests.  SIGINT, SIGTERM and an     *)
(* uncaught exception call performShutdown whenever they occur.             *)

ShutdownReasons == {"SIGTERM", "UNCAUGHT_EXCEPTION"}

\* process.on(SIGINT | SIGTERM | uncaughtException): performShutdown(reason)
Request(i, reason) ==
  /\ ~con[i].exited
  /\ con[i].isShuttingDown => hist.requests < MaxLateRequests
  /\ Apply(i, performShutdown(Cur(i), reason))
  /\ hist' = IF con[i].isShuttingDown
             THEN [hist EXCEPT !.requests = @ + 1, !.requested = i]
             ELSE hist
  /\ UNCHANGED <<tickMs, now, call, obs>>

ReqTick ==
  /\ now < ReqMaxTime
  /\ \A i \in Instances : Settled(i)
  /\ now' = now + 1
  /\ UNCHANGED <<tickMs, taskLocks, lockSeq, call, conVars, leaseVars>>

ReqNext ==
  \/ \E i \in Instances :
       \/ \E random \in RandomOf(INIT_EXTRA_WAIT_SPREAD) : TimerBoot(i, random)
       \/ \E answer \in AnswersTo(i), random \in RandomOf(PROBE_RETRY_SPREAD) :
            TimerAcquireMaster(i, answer, random)
       \/ \E random \in RandomOf(ACTIVE_RETRY_SPREAD) : AmFindExec(i, random)
       \/ AmDelStale(i)
       \/ AmFindMaster(i)
       \/ AmDelStaleMaster(i)
       \/ AmSave(i)
       \/ \E answer \in AnswersTo(i), jitter \in RandomOf(COOLDOWN_JITTER),
             random \in RandomOf(PROBE_RETRY_SPREAD) :
            AeEntry(i, answer, jitter, random)
       \/ AeFind(i)
       \/ AeDelStale(i)
       \/ AeSave(i)
       \/ MasterHeartbeat(i)
       \/ ExecutionHeartbeat(i)
       \/ LockCheck(i)
       \/ TimerStartBot(i)
       \/ ChainCheck(i, isActiveInstance(i, locks, now))
       \/ \E answer \in AnswersTo(i), random \in RandomOf(PROBE_RETRY_SPREAD) :
            ChainProbe(i, answer, random)
       \/ GetMeOk(i)
       \/ StopBotDone(i)
       \/ \E reason \in ShutdownReasons : Request(i, reason)
       \/ ShutdownRelease(i)
       \/ Exit(i)
  \/ ReqTick

ReqSpec == LeaseInit /\ [][ReqNext]_vars

----------------------------------------------------------------------------
(* BeatSpec: the two heartbeats, one step per await.  It starts after a     *)
(* takeover (LeaseSpec reaches it when the Lock TTL removes the locks of a  *)
(* running leader): one instance owns both locks, the former leader owns    *)
(* none, still polls and still has its heartbeat intervals.  call[i] is the *)
(* executeWithLock of the heartbeat tick of instance i.                     *)

beatTask(kind) == IF kind = "masterHb" THEN "master_heartbeat" ELSE "execution_heartbeat"

beatPeriod(kind) ==
  IF kind = "masterHb" THEN MASTER_HEARTBEAT_PERIOD ELSE EXECUTION_HEARTBEAT_PERIOD

\* the master heartbeat takes its task lock with the default timeout, the
\* execution heartbeat with 20 s
beatTimeout(kind) == IF kind = "masterHb" THEN TASK_LOCK_TIMEOUT ELSE PROBE_LOCK_TIMEOUT

\* The lock id of the heartbeat tick of instance i (one tick of an instance is
\* in progress at a time, see BeatTick)
beatLockId(i) == IF i = "i1" THEN 0 - 3 ELSE 0 - 4

\* the setInterval callback of a heartbeat runs up to its acquireTaskLock
BeatFires(i, kind) ==
  \E t \in Due(i) :
    /\ t.k = kind
    /\ call[i].pc = "idle"
    /\ LET e == After(Fired(Cur(i), t), kind, Ticks(beatPeriod(kind)), 0)
       IN IF e.c.isShuttingDown THEN Apply(i, e) /\ call' = call
          ELSE /\ Apply(i, IF kind = "execHb"
                           THEN [e EXCEPT !.tl = cleanupTelegramTestLocks(@)] ELSE e)
               /\ call' = [call EXCEPT ![i] =
                     [NoCall EXCEPT !.pc = "find", !.task = beatTask(kind),
                                    !.timeout = Ticks(beatTimeout(kind)),
                                    !.lockId = beatLockId(i)]]
    /\ UNCHANGED <<tickMs, now, obs, hist>>

\* the function the heartbeat passes to executeWithLock: Lock.findOne of the
\* own lock, then the save of last_heartbeat or, in the master heartbeat, the
\* clearInterval and setTimeout(acquireMasterLock, 5000)
BeatRenews(i) ==
  /\ call[i].pc = "run"
  /\ call[i].task \in {"master_heartbeat", "execution_heartbeat"}
  /\ LET master == call[i].task = "master_heartbeat"
         own == {d \in (IF master THEN masterLocks(locks) ELSE executionLocks(locks)) :
                   d.instance_id = i}
         e == Cur(i)
     IN IF own # {}
        THEN /\ \E d \in own : Apply(i, [e EXCEPT !.ls = refreshHeartbeat(@, d, now)])
             /\ call' = [call EXCEPT ![i].pc = "release", ![i].answer = "renewed"]
        ELSE /\ Apply(i, IF master /\ ~e.c.isShuttingDown
                         THEN After(clearInterval(e, "masterHb"), "acquireMaster",
                                    Ticks(REACQUIRE_DELAY), 864)
                         ELSE IF master THEN clearInterval(e, "masterHb") ELSE e)
             /\ call' = [call EXCEPT ![i].pc = "release", ![i].answer = "lost"]
  /\ UNCHANGED <<tickMs, now, obs, hist>>

\* executeWithLock has returned to the callback: the execution heartbeat
\* clears its interval and stops the consumer when the result is `false`
BeatReturns(i) ==
  /\ call[i].pc = "done"
  /\ Apply(i, IF /\ call[i].task = "execution_heartbeat"
                 /\ call[i].result = "returned"
                 /\ call[i].answer = "lost"
              THEN stopBot(clearInterval(Cur(i), "execHb"), "stopLoss", 0)
              ELSE Cur(i))
  /\ call' = [call EXCEPT ![i] = NoCall]
  /\ UNCHANGED <<tickMs, now, obs, hist>>

\* Time passes while no callback is due; a task function may take time (pc
\* "run"), but less than the period of its interval.
BeatTick ==
  /\ now < BeatMaxTime
  /\ \A i \in Instances :
       /\ call[i].pc \in {"idle", "run"}
       /\ \A t \in Due(i) : t.k \notin {"masterHb", "execHb"} \cup StopKinds
  /\ now' = now + 1
  /\ UNCHANGED <<tickMs, taskLocks, lockSeq, call, conVars, leaseVars>>

BeatInit ==
  /\ tickMs = TimerTickMs
  /\ now = 0
  /\ taskLocks = {}
  /\ lockSeq = 0
  /\ call = [i \in Instances |-> NoCall]
  /\ obs = [i \in Instances |-> NoObs]
  /\ hist = NoHist
  /\ \E owner \in Instances, phase \in 0..MaxPhase :
       /\ locks = {newLock("master_lock", owner, 0), newLock("execution_lock", owner, 0)}
       /\ co = [i \in Instances |-> [NoCoordinator EXCEPT !.lockFile = IF i = owner THEN i ELSE NoLockFile]]
       /\ con = [i \in Instances |->
                   [NoConsumer EXCEPT !.bot = (i # owner), !.listening = (i # owner)]]
       /\ timers = [i \in Instances |->
            IF i = owner
            THEN {Timer("masterHb", Ticks(MASTER_HEARTBEAT_PERIOD), 0),
                  Timer("execHb", Ticks(EXECUTION_HEARTBEAT_PERIOD), 0)}
            ELSE {Timer("masterHb", phase, 0), Timer("execHb", phase, 0)}]

BeatNext ==
  \/ \E i \in Instances :
       \/ \E kind \in {"masterHb", "execHb"} : BeatFires(i, kind)
       \/ AcquireFind(i)
       \/ AcquireSave(i)
       \/ BeatRenews(i)
       \/ ExecuteRelease(i)
       \/ BeatReturns(i)
       \/ StopBotDone(i)
  \/ BeatTick

BeatSpec == BeatInit /\ [][BeatNext]_vars

----------------------------------------------------------------------------
(* RenewSpec: one instance runs alone, with its consumer connected and its  *)
(* three intervals armed, at the moment the TTL monitor of the store has    *)
(* removed its two Lock documents (LeaseSpec reaches this 300 s after the   *)
(* acquisition).  The heartbeats run one step per await, beside the         *)
(* re-acquisitions that the lock check and the heartbeats set off.          *)

RenewInit ==
  /\ tickMs = TimerTickMs
  /\ now = 0
  /\ taskLocks = {}
  /\ lockSeq = 0
  /\ call = [i \in Instances |-> NoCall]
  /\ obs = [i \in Instances |-> NoObs]
  /\ hist = NoHist
  /\ locks = {}
  /\ co = [i \in Instances |->
             IF i = Leader THEN [NoCoordinator EXCEPT !.lockFile = i] ELSE NoCoordinator]
  /\ con = [i \in Instances |->
              IF i = Leader THEN [NoConsumer EXCEPT !.bot = TRUE, !.listening = TRUE]
              ELSE [NoConsumer EXCEPT !.exited = TRUE]]
  /\ \E pm \in 0..MaxPhase, pe \in 0..MaxPhase, pc \in 0..MaxPhase :
       timers = [i \in Instances |->
                   IF i = Leader
                   THEN {Timer("masterHb", pm, 0), Timer("execHb", pe, 0),
                         Timer("lockCheck", pc, 0)}
                   ELSE {}]

RenewTick ==
  /\ now < RenewMaxTime
  /\ \A i \in Instances : Settled(i) /\ call[i].pc = "idle"
  /\ now' = now + 1
  /\ UNCHANGED <<tickMs, taskLocks, lockSeq, call, conVars, leaseVars>>

RenewNext ==
  \/ \E i \in Instances :
       \/ \E kind \in {"masterHb", "execHb"} : BeatFires(i, kind)
       \/ AcquireFind(i)
       \/ AcquireSave(i)
       \/ BeatRenews(i)
       \/ ExecuteRelease(i)
       \/ BeatReturns(i)
       \/ LockCheck(i)
       \/ \E answer \in AnswersTo(i) : TimerAcquireMaster(i, answer, 0)
       \/ AmFindExec(i, 0)
       \/ AmDelStale(i)
       \/ AmFindMaster(i)
       \/ AmDelStaleMaster(i)
       \/ AmSave(i)
       \/ \E answer \in AnswersTo(i) :
            \/ AeEntry(i, answer, 0, 0)
            \/ TimerAcquireExec(i, answer, 0, 0)
       \/ AeFind(i)
       \/ AeDelStale(i)
       \/ AeSave(i)
       \/ LossCleanup(i, 0)
       \/ StopBotDone(i)
       \/ TimerStartBot(i)
       \/ ChainCheck(i, isActiveInstance(i, locks, now))
       \/ \E answer \in AnswersTo(i) : ChainProbe(i, answer, 0)
       \/ GetMeOk(i)
  \/ RenewTick

RenewSpec == RenewInit /\ [][RenewNext]_vars

----------------------------------------------------------------------------
(* TakeoverSpec: LeaseSpec without the crash, with a provider that answers  *)
(* the long poll with '409 Conflict' from First409Time on: the leader is in *)
(* the wait of its start sequence when the TTL monitor removes its locks    *)
(* and the other instance takes over.                                       *)

Late409(i) ==
  /\ now >= First409Time
  /\ obs[i].conflictRun < MaxConflicts
  /\ PollingError409(i, 0)

TakeoverTick ==
  /\ now < TakeoverMaxTime
  /\ \A i \in Instances : Settled(i)
  /\ \A d \in locks : now - d.created_at < Ticks(LOCK_TTL) + TtlLag
  /\ now' = now + 1
  /\ UNCHANGED <<tickMs, taskLocks, lockSeq, call, conVars, leaseVars>>

TakeoverNext ==
  \/ \E i \in Instances :
       \/ \E random \in RandomOf(INIT_EXTRA_WAIT_SPREAD) : TimerBoot(i, random)
       \/ \E answer \in AnswersTo(i), random \in RandomOf(PROBE_RETRY_SPREAD) :
            TimerAcquireMaster(i, answer, random)
       \/ \E random \in RandomOf(ACTIVE_RETRY_SPREAD) : AmFindExec(i, random)
       \/ AmDelStale(i)
       \/ AmFindMaster(i)
       \/ AmDelStaleMaster(i)
       \/ AmSave(i)
       \/ \E answer \in AnswersTo(i), jitter \in RandomOf(COOLDOWN_JITTER),
             random \in RandomOf(PROBE_RETRY_SPREAD) :
            \/ AeEntry(i, answer, jitter, random)
            \/ TimerAcquireExec(i, answer, jitter, random)
       \/ AeFind(i)
       \/ AeDelStale(i)
       \/ AeSave(i)
       \/ MasterHeartbeat(i)
       \/ ExecutionHeartbeat(i)
       \/ \E random \in RandomOf(REACQUIRE_JITTER) : LossCleanup(i, random)
       \/ LockCheck(i)
       \/ TimerStartBot(i)
       \/ TimerRestart(i)
       \/ ChainDelayDone(i)
       \/ ChainCheck(i, isActiveInstance(i, locks, now))
       \/ \E answer \in AnswersTo(i), random \in RandomOf(PROBE_RETRY_SPREAD) :
            ChainProbe(i, answer, random)
       \/ GetMeOk(i)
       \/ StopBotDone(i)
       \/ Late409(i)
  \/ LockTTL
  \/ TakeoverTick

TakeoverSpec == LeaseInit /\ [][TakeoverNext]_vars

----------------------------------------------------------------------------
(* MarkerSpec: the instances run on one host, in one working directory, and *)
(* share the lock file; a process that ran there before may have left its   *)
(* id in it.                                                                *)

SharedHost == "host"

MarkerInit ==
  /\ tickMs = TimerTickMs
  /\ now = 0
  /\ taskLocks = {}
  /\ lockSeq = 0
  /\ call = [i \in Instances |-> NoCall]
  /\ con = [i \in Instances |-> NoConsumer]
  /\ \E r \in RandomOf(MAX_INITIAL_DELAY - MIN_INITIAL_DELAY) :
       timers = [i \in Instances |->
                   {Timer("boot", TicksUp(MIN_INITIAL_DELAY + (IF i = Leader THEN 0 ELSE r)), 584)}]
  /\ obs = [i \in Instances |-> NoObs]
  /\ locks = {}
  /\ \E file \in {NoLockFile, StaleId} :
       co = [i \in Instances |-> [NoCoordinator EXCEPT !.lockFile = file, !.host = SharedHost]]
  /\ hist = NoHist

\* the lock file of the host of instance i disappears (the working directory
\* is cleaned, the file is deleted by hand)
LockFileLost(i) ==
  /\ ~con[i].exited
  /\ co[i].lockFile # NoLockFile
  /\ co' = [j \in Instances |->
              IF co[j].host = co[i].host THEN [co[j] EXCEPT !.lockFile = NoLockFile]
              ELSE co[j]]
  /\ UNCHANGED <<tickMs, now, taskLocks, lockSeq, call, conVars, locks, hist>>

MarkerSignal(i) ==
  /\ now <= MarkerMaxSignalTime
  /\ Signal(i)

MarkerTick ==
  /\ now < MarkerMaxTime
  /\ \A i \in Instances : Settled(i)
  /\ now' = now + 1
  /\ UNCHANGED <<tickMs, taskLocks, lockSeq, call, conVars, leaseVars>>

MarkerNext ==
  \/ \E i \in Instances :
       \/ \E random \in RandomOf(INIT_EXTRA_WAIT_SPREAD) : TimerBoot(i, random)
       \/ \E answer \in AnswersTo(i), random \in RandomOf(PROBE_RETRY_SPREAD) :
            TimerAcquireMaster(i, answer, random)
       \/ \E random \in RandomOf(ACTIVE_RETRY_SPREAD) : AmFindExec(i, random)
       \/ AmDelStale(i)
       \/ AmFindMaster(i)
       \/ AmDelStaleMaster(i)
       \/ AmSave(i)
       \/ \E answer \in AnswersTo(i), jitter \in RandomOf(COOLDOWN_JITTER),
             random \in RandomOf(PROBE_RETRY_SPREAD) :
            AeEntry(i, answer, jitter, random)
       \/ AeFind(i)
       \/ AeDelStale(i)
       \/ AeSave(i)
       \/ MasterHeartbeat(i)
       \/ ExecutionHeartbeat(i)
       \/ LockCheck(i)
       \/ TimerStartBot(i)
       \/ ChainCheck(i, isActiveInstance(i, locks, now))
       \/ \E answer \in AnswersTo(i), random \in RandomOf(PROBE_RETRY_SPREAD) :
            ChainProbe(i, answer, random)
       \/ GetMeOk(i)
       \/ StopBotDone(i)
       \/ MarkerSignal(i)
       \/ LockFileLost(i)
       \/ ShutdownRelease(i)
       \/ Exit(i)
  \/ MarkerTick

MarkerSpec == MarkerInit /\ [][MarkerNext]_vars

----------------------------------------------------------------------------
(* NetSpec: the consumer of the instance that holds the execution lease     *)
(* under transient network errors of the polling (ESOCKETTIMEDOUT,          *)
(* ETIMEDOUT, ECONNRESET): the handler of polling_error and restartPolling. *)

\* a handler that asks for the full restart at the first network error
tooManyNetworkErrorsAtOnce(n) == n > 0

\* networkErrorCount > MAX_NETWORK_ERROR_COUNT
tooManyNetworkErrors(n) == n > MAX_NETWORK_ERROR_COUNT

\* the polling_error handler receives a network error
PollingErrorNetwork(i) ==
  /\ con[i].listening
  /\ LET e == [Cur(i) EXCEPT !.c.networkErrorCount = @ + 1]
     IN Apply(i, IF tooManyNetworkErrors(e.c.networkErrorCount)
                 THEN stopBot(e, "stopNet", 0)
                 ELSE After(e, "light", Ticks(LIGHT_RESTART_DELAY), 1197))
  /\ UNCHANGED <<tickMs, now, call, obs, hist>>

\* 5 s after a network error: restartPolling, if a bot exists and no
\* restartPolling is under way; it removes the polling_error listeners, stops
\* the polling and waits 5 s
TimerLightRestart(i) ==
  \E t \in Due(i) :
    /\ t.k = "light"
    /\ LET e == Fired(Cur(i), t)
       IN IF e.c.bot /\ ~e.c.isShuttingDown /\ ~e.c.isPollingRestarting
          THEN Apply(i, After([e EXCEPT !.c.isPollingRestarting = TRUE,
                                        !.c.listening = FALSE,
                                        !.c.rpAfterStop = \E u \in e.tm : u.k \in StopKinds],
                              "rpWait", Ticks(RESTART_POLLING_WAIT), 1243))
          ELSE Apply(i, e)
    /\ UNCHANGED <<tickMs, now, call, obs, hist>>

\* restartPolling after its wait: testTelegramConnection; on failure the full
\* restart is set 15 s later; otherwise bot.startPolling() (throws: it rejects,
\* or bot is null by now), the handlers are set up again and the count of
\* network errors is decreased
RestartPollingResumes(i, answer, throws) ==
  \E t \in Due(i) :
    /\ t.k = "rpWait"
    \* a 5 s timer of the handler was set before this restartPolling removed
    \* the listeners, hence before this 5 s wait began: it fires first
    /\ \A u \in Due(i) : u.k # "light"
    \* and the 5 s wait of a stopBot that was under way when this restartPolling
    \* began ends before the wait of this restartPolling
    /\ con[i].rpAfterStop => \A u \in Due(i) : u.k \notin StopKinds
    /\ LET e == [Fired(Cur(i), t) EXCEPT !.c.rpAfterStop = FALSE]
           r == testTelegramConnection(e.c, telegramTestBusy(e.tl), answer)
       IN IF ~r.ok
          THEN Apply(i, After([e EXCEPT !.c = [r.c EXCEPT !.isPollingRestarting = FALSE]],
                              "rpFull", Ticks(FULL_RESTART_DELAY), 1258))
          ELSE IF throws \/ ~e.c.bot
               THEN Apply(i, stopBot([e EXCEPT !.c = r.c], "stopRp", 0))
          ELSE Apply(i, [e EXCEPT !.c = [r.c EXCEPT
                           !.listening = TRUE,
                           !.isPollingRestarting = FALSE,
                           !.networkErrorCount = IF @ > 0 THEN @ - 1 ELSE @]])
    /\ UNCHANGED <<tickMs, now, call, obs, hist>>

\* 15 s after the failed probe of restartPolling: bot = null,
\* isBotStarting = false, startBot(); a consumer that polls at that moment is
\* not stopped
TimerFullRestart(i) ==
  \E t \in Due(i) :
    /\ t.k = "rpFull"
    /\ con[i].chain \notin InstantChain
    /\ LET e == Fired(Cur(i), t)
       IN IF e.c.isShuttingDown THEN Apply(i, e)
          ELSE Apply(i, startBot(i, [e EXCEPT
                 !.c.orphans = IF e.c.listening THEN @ + 1 ELSE @,
                 !.c.bot = FALSE, !.c.listening = FALSE,
                 !.c.isBotStarting = FALSE]))
    /\ UNCHANGED <<tickMs, now, call, obs, hist>>

\* 15 s after the catch of restartPolling: isPollingRestarting = false, startBot()
TimerRestartAfterCatch(i) ==
  \E t \in Due(i) :
    /\ t.k = "restartRp"
    /\ con[i].chain \notin InstantChain
    /\ LET e == [Fired(Cur(i), t) EXCEPT !.c.isPollingRestarting = FALSE]
       IN Apply(i, IF e.c.isShuttingDown THEN e ELSE startBot(i, e))
    /\ UNCHANGED <<tickMs, now, call, obs, hist>>

NetTick ==
  /\ now < NetMaxTime
  /\ \A i \in Instances : Settled(i)
  /\ now' = now + 1
  /\ UNCHANGED <<tickMs, taskLocks, lockSeq, call, conVars, leaseVars>>

NetNext ==
  \/ \E i \in Instances :
       \/ TimerStartBot(i)
       \/ TimerRestart(i)
       \/ ChainCheck(i, TRUE)
       \/ \E answer \in AnswersTo(i), random \in RandomOf(PROBE_RETRY_SPREAD) :
            ChainProbe(i, answer, random)
       \/ GetMeOk(i)
       \/ StopBotDone(i)
       \/ PollingErrorNetwork(i)
       \/ TimerLightRestart(i)
       \/ \E answer \in Answers, throws \in BOOLEAN : RestartPollingResumes(i, answer, throws)
       \/ TimerFullRestart(i)
       \/ TimerRestartAfterCatch(i)
  \/ NetTick

NetSpec == PollInit /\ [][NetNext]_vars

----------------------------------------------------------------------------
(* Claims about the network errors of the polling, checked under NetSpec    *)

\* a step of instance i that receives a network error
networkErrorReceived(i) == con'[i].networkErrorCount = con[i].networkErrorCount + 1

\* a step of instance i that sets off a full stop/start of the consumer:
\* stopBot followed by a delayed startBot, or the delayed bot = null; startBot()
fullRestartForced(i) ==
  \E t \in timers'[i] \ timers[i] :
    \/ t.k \in {"stopNet", "stopRp", "rpFull"}
    \/ t.k = "restartRp" /\ \A u \in timers[i] : u.k # "stopRp"

\* a step of instance i in which restartPolling resumes after its 5 s wait
restartPollingResumes(i) == \E t \in timers[i] \ timers'[i] : t.k = "rpWait"

\* C35 as stated: a full stop/start cycle of the consumer is forced only when
\* networkErrorCount exceeds MAX_NETWORK_ERROR_COUNT.
C35_FullRestartOnlyOverThreshold ==
  [][\A i \in Instances :
       fullRestartForced(i) => con'[i].networkErrorCount > MAX_NETWORK_ERROR_COUNT]_vars

\* C35, amended: a network error adds one to networkErrorCount and leaves the
\* conflict counter alone; while the count is at most MAX_NETWORK_ERROR_COUNT
\* the handler only sets the lightweight restart of the polling, above it the
\* handler stops the consumer, and the count is zero when that stop has
\* returned; apart from that a full stop/start is set off only by a
\* restartPolling that fails (its probe fails or starting the polling throws).
C35_LightRestartFirst ==
  [][\A i \in Instances :
       /\ networkErrorReceived(i) =>
            /\ con'[i].pollingRetryCount = con[i].pollingRetryCount
            /\ IF con'[i].networkErrorCount > MAX_NETWORK_ERROR_COUNT
               THEN /\ \E t \in timers'[i] : t.k = "stopNet"
                    /\ ~con'[i].listening
               ELSE /\ \E t \in timers'[i] :
                         t.k = "light" /\ t.at = now + Ticks(LIGHT_RESTART_DELAY)
                    /\ ~fullRestartForced(i)
                    /\ con'[i].bot /\ con'[i].listening
       /\ fullRestartForced(i) =>
            \/ networkErrorReceived(i)
            \/ restartPollingResumes(i)
       /\ (\E t \in timers[i] \ timers'[i] : t.k = "stopNet") =>
            /\ con'[i].networkErrorCount = 0
            /\ \E t \in timers'[i] : t.k = "restart"]_vars

\* a full restart after more than MAX_NETWORK_ERROR_COUNT network errors is
\* under way, and a lightweight restart has been set before
C35_Witness ==
  \E i \in Instances :
    /\ con[i].networkErrorCount > MAX_NETWORK_ERROR_COUNT
    /\ \E t \in timers[i] : t.k = "stopNet"
    /\ \E t \in timers[i] : t.k = "light"

\* the consumer objects of instance i that poll: the one `bot` refers to and
\* the ones no variable refers to any more
livePolls(i) == (IF con[i].listening THEN 1 ELSE 0) + con[i].orphans

\* C40: within one instance at most one long-poll connection is live at any
\* time: a consumer object is created only when the previous one has stopped
\* polling.
C40_OneLongPoll == \A i \in Instances : livePolls(i) <= 1

----------------------------------------------------------------------------
(* CleanupSpec: the executeWithLock calls of TaskSpec together with the     *)
(* cleanups of the TaskLock collection that run beside them.                *)

\* age above which emergencyCleanupLocks removes a TaskLock of another instance
EMERGENCY_AGE == 300000

\* emergencyCleanupLocks: every 'telegram_test' lock, then the locks of other
\* instances created over 5 minutes ago
emergencyCleanupLocks(i, tl) ==
  LET rest == {d \in tl : d.task_name # "telegram_test"}
      activeLocks == {d \in rest : d.instance_id # i}
  IN IF activeLocks # {}
     THEN {d \in rest : ~(d.instance_id # i
                           /\ d.created_at < now - Ticks(EMERGENCY_AGE))}
     ELSE rest

\* a process starts as instance i: initializeBot deletes the TaskLocks of its
\* own id and runs the emergency cleanup
InitializeBot(i) ==
  /\ call[i].pc = "idle"
  /\ taskLocks' = emergencyCleanupLocks(i, {d \in taskLocks : d.instance_id # i})
  /\ taskLocks' # taskLocks
  /\ UNCHANGED <<tickMs, conVars, leaseVars, now, lockSeq, call>>

\* the periodic cleanupExpiredTaskLocks of the lock check
Janitor(i) ==
  /\ taskLocks' = cleanupExpiredTaskLocks(taskLocks)
  /\ taskLocks' # taskLocks
  /\ UNCHANGED <<tickMs, conVars, leaseVars, now, lockSeq, call>>

CleanupNext ==
  \/ TaskNext
  \/ \E i \in Instances : InitializeBot(i)
  \/ \E i \in Instances : Janitor(i)

CleanupSpec == TaskInit /\ [][CleanupNext]_vars

\* C19: no instance deletes a TaskLock of another instance that has not
\* expired and is younger than FORCE_RECLAIM_AGE: a TaskLock that a step
\* removes is expired, or over that age, or released by the call that holds it.
C19_ForeignTaskLocksUntouched ==
  [][\A d \in taskLocks \ taskLocks' :
       \/ d.expires_at <= now
       \/ now - d.created_at >= Ticks(FORCE_RECLAIM_AGE)
       \/ /\ call[d.instance_id].pc = "release"
          /\ call'[d.instance_id].pc = "done"
          /\ call[d.instance_id].lockId = d.lock_id]_vars

----------------------------------------------------------------------------
(* ProbeSpec: testTelegramConnection, one step per await.  call[i] is the   *)
(* probe in progress (its acquireTaskLock runs the steps of TaskSpec), the  *)
(* flags and the failure counter are in con[i].                             *)
(* A lock of a probe expires after 20 s and the sweep removes it after 60 s, *)
(* so the forced removal of acquireTaskLock has nothing to act on here.     *)

\* a probe that never holds back
neverRecentConflict(c, ms) == FALSE

\* telegramConflictDetected && lastTelegramConflictTime
\*   && Date.now() - lastTelegramConflictTime < 60000
probeHoldsBack(c, ms) == recentConflict(c, ms)

\* testTelegramConnection is called: the return on a recent conflict, or the
\* start of acquireTaskLock('telegram_test', 20000)
ProbeCall(i) ==
  /\ call[i].pc = "idle"
  /\ ~con[i].exited
  /\ IF probeHoldsBack(con[i], CONFLICT_COOLDOWN)
     THEN /\ call' = [call EXCEPT ![i] = [NoCall EXCEPT !.pc = "done",
                                                         !.task = "telegram_test",
                                                         !.result = "false"]]
          /\ UNCHANGED lockSeq
     ELSE /\ lockSeq < MaxProbes
          /\ lockSeq' = lockSeq + 1
          /\ call' = [call EXCEPT ![i] =
               [NoCall EXCEPT !.pc = "sweep", !.task = "telegram_test",
                              !.timeout = Ticks(PROBE_LOCK_TIMEOUT),
                              !.lockId = lockSeq + 1]]
  /\ UNCHANGED <<tickMs, conVars, leaseVars, now, taskLocks>>

\* acquireTaskLock has answered success: false
ProbeSkipped(i) ==
  /\ call[i].pc = "done" /\ call[i].result = "skipped"
  /\ LET count == con[i].connectionFailureCount + 1
     IN IF count > MAX_CONNECTION_FAILURES
        THEN /\ taskLocks' = emergencyCleanupLocks(i, taskLocks)
             /\ con' = [con EXCEPT ![i].connectionFailureCount = 0]
        ELSE /\ con' = [con EXCEPT ![i].connectionFailureCount = count]
             /\ UNCHANGED taskLocks
  /\ call' = [call EXCEPT ![i].result = "false"]
  /\ UNCHANGED <<tickMs, timers, obs, leaseVars, now, lockSeq>>

\* a probe that leaves the flags and the counter as they are
probeOutcomeNone(c, answer) == c

\* the flags and the counter after getMe: reset on success, the conflict flag
\* and its time on '409 Conflict', nothing on another error
probeOutcome(c, answer) ==
  IF answer = "ok"
  THEN [c EXCEPT !.telegramConflictDetected = FALSE, !.connectionFailureCount = 0]
  ELSE IF answer = "conflict"
  THEN [c EXCEPT !.telegramConflictDetected = TRUE, !.lastTelegramConflictTime = now]
  ELSE c

\* testBot.getMe() under the lock: it resolves, or rejects with '409 Conflict'
\* or with another error
ProbeAnswer(i, answer) ==
  /\ call[i].pc = "run"
  /\ con' = [con EXCEPT ![i] = probeOutcome(@, answer)]
  /\ call' = [call EXCEPT ![i].pc = "release", ![i].threw = (answer # "ok"),
                          ![i].answer = answer]
  /\ UNCHANGED <<tickMs, timers, obs, leaseVars, now, taskLocks, lockSeq>>

\* finally: releaseTaskLock('telegram_test', acquiredLockId), then the return
ProbeRelease(i) ==
  /\ call[i].pc = "release"
  /\ taskLocks' = releaseTaskLock(taskLocks, "telegram_test", call[i].lockId, now)
  /\ call' = [call EXCEPT ![i].pc = "done",
                          ![i].result = IF call[i].threw THEN "false" ELSE "true"]
  /\ UNCHANGED <<tickMs, conVars, leaseVars, now, lockSeq>>

\* the caller takes the answer of the probe
ProbeResumes(i) ==
  /\ call[i].pc = "done" /\ call[i].result \in {"true", "false"}
  /\ call' = [call EXCEPT ![i] = NoCall]
  /\ UNCHANGED <<tickMs, conVars, leaseVars, now, taskLocks, lockSeq>>

\* time passes between the calls and while getMe is in flight
ProbeTick ==
  /\ now < ProbeMaxTime
  /\ \A i \in Instances : call[i].pc \in {"idle", "run"}
  /\ now' = now + 1
  /\ UNCHANGED <<tickMs, conVars, leaseVars, taskLocks, lockSeq, call>>

ProbeNext ==
  \/ \E i \in Instances : ProbeCall(i)
  \/ \E i \in Instances : AcquireSweep(i)
  \/ \E i \in Instances : AcquireFind(i)
  \/ \E i \in Instances : AcquireSave(i)
  \/ \E i \in Instances : ProbeSkipped(i)
  \/ \E i \in Instances, answer \in Answers : ProbeAnswer(i, answer)
  \/ \E i \in Instances : ProbeRelease(i)
  \/ \E i \in Instances : ProbeResumes(i)
  \/ TaskLockTTL
  \/ ProbeTick

ProbeSpec == TaskInit /\ [][ProbeNext]_vars

----------------------------------------------------------------------------
(* Claims about the probe, checked under ProbeSpec *)

\* instance i has seen a conflict less than CONFLICT_COOLDOWN ago
conflictWithinCooldown(i) ==
  /\ con[i].telegramConflictDetected
  /\ con[i].lastTelegramConflictTime # NoTime
  /\ now - con[i].lastTelegramConflictTime < Ticks(CONFLICT_COOLDOWN)

\* C22: testTelegramConnection called less than 60 s after a conflict returns
\* false at once: no call of the provider, no 'telegram_test' TaskLock and no
\* lock id, the conflict flag, its time and the failure counter as they were.
C22_HoldsBackAfterConflict ==
  [][\A i \in Instances :
       (call[i].pc = "idle" /\ call'[i].pc # "idle" /\ conflictWithinCooldown(i))
         => /\ call'[i].pc = "done" /\ call'[i].result = "false"
            /\ ~call'[i].acquired
            /\ taskLocks' = taskLocks /\ lockSeq' = lockSeq
            /\ con'[i] = con[i]]_vars

\* the probe has returned false during the cooldown
C22_Witness ==
  \E i \in Instances :
    /\ conflictWithinCooldown(i)
    /\ call[i].pc = "done" /\ call[i].result = "false" /\ call[i].lockId = 0

\* the probe of instance i returns in this step
probeReturns(i) ==
  /\ call'[i].pc = "done" /\ call'[i].result \in {"true", "false"}
  /\ ~(call[i].pc = "done" /\ call[i].result \in {"true", "false"})

C24_SkippedProbesCounted ==
  [][\A i \in Instances :
       (call[i].pc = "done" /\ call[i].result = "skipped" /\ call'[i].result # "skipped")
         => IF con[i].connectionFailureCount + 1 > MAX_CONNECTION_FAILURES
            THEN /\ con'[i].connectionFailureCount = 0
                 /\ \A d \in taskLocks \ taskLocks' :
                      /\ d.task_name = "telegram_test"
                      /\ d.created_at < now - Ticks(FORCE_RECLAIM_AGE)
            ELSE /\ con'[i].connectionFailureCount = con[i].connectionFailureCount + 1
                 /\ taskLocks' = taskLocks]_vars

----------------------------------------------------------------------------
(* Claims about start and shutdown, checked under ShutSpec *)

\* instance i owns an execution lock whose heartbeat is within
\* GLOBAL_LOCK_TIMEOUT, and no other instance owns one with a later heartbeat
ownsFreshestExecutionLock(i) ==
  \E d \in locks :
    /\ d.name = "execution_lock" /\ d.instance_id = i
    /\ d.last_heartbeat > now - Ticks(GLOBAL_LOCK_TIMEOUT)
    /\ \A n \in locks : (n.name = "execution_lock" /\ n.instance_id # i)
                          => n.last_heartbeat <= d.last_heartbeat

shutdownCompleted(i) ==
  /\ con[i].isShuttingDown
  /\ con[i].exited \/ \E t \in timers[i] : t.k = "exit"

ownsNothing(i) ==
  /\ \A d \in locks : d.instance_id # i
  /\ \A d \in taskLocks : d.instance_id # i
  /\ co[i].lockFile # i

\* C15: once performShutdown of an instance has run to completion, the store
\* holds no Lock and no TaskLock of that instance, its lock file is removed
\* and none of its interval timers is running.
C15_ShutdownLeavesNothing ==
  \A i \in Instances :
    shutdownCompleted(i)
      => /\ ownsNothing(i)
         /\ \A t \in timers[i] : t.k \notin IntervalKinds

\* C16: from the moment isShuttingDown is set, the instance saves no Lock,
\* renews no heartbeat of a Lock and starts no consumer, whatever step was
\* scheduled or in progress when the flag was set.
C16_ShutdownHasPriority ==
  [][\A i \in Instances :
       con[i].isShuttingDown
         => /\ \A d \in locks' : d.instance_id = i => d \in locks
            /\ con'[i].bot => con[i].bot
            /\ con'[i].listening => con[i].listening]_vars

\* performShutdown of instance i goes on after its 5 s wait in this step:
\* releaseAllLocks runs
releaseAllLocksRuns(i) ==
  \E t \in timers[i] \ timers'[i] : t.k = "shutdownWait"

\* C31: when performShutdown releases the locks the consumer of the instance
\* is stopped (bot is null, nothing polls), and it stays stopped: no instance
\* that has released its locks in a shutdown is polling.
C31_StoppedBeforeRelease ==
  [][\A i \in Instances :
       /\ releaseAllLocksRuns(i) => (~con[i].bot /\ ~con[i].listening)
       /\ (con[i].isShuttingDown /\ \E t \in timers[i] : t.k = "exit")
            => (~con'[i].bot /\ ~con'[i].listening)]_vars

\* the timers through which a performShutdown in progress reaches process.exit:
\* the 5 s wait of stopBot, its own 5 s wait, the exit delay
ExitPathKinds == {"stopShutdown", "shutdownWait", "exit"}

\* C32: a shutdown that has been requested ends with the exit of the process:
\* as long as the instance is shutting down and has not exited, the next step
\* towards process.exit is pending, also when an await of performShutdown
\* fails or never completes.
C32_ShutdownAlwaysExits ==
  \A i \in Instances :
    (con[i].isShuttingDown /\ ~con[i].exited)
      => \E t \in timers[i] : t.k \in ExitPathKinds

\* performShutdown is called in instance i while its shutdown is in progress
lateRequest(i) ==
  /\ hist'.requests = hist.requests + 1
  /\ hist'.requested = i

\* C33: a performShutdown called while a shutdown is in progress changes
\* nothing (no timer, no flag, no lock, not the consumer); the instance has at
\* most one shutdown sequence under way, and the reason recorded by the first
\* call stays until the process exits.
C33_LaterRequestsIgnored ==
  [][\A i \in Instances :
       /\ lateRequest(i)
            => /\ con'[i] = con[i]
               /\ timers'[i] = timers[i]
               /\ co'[i] = co[i]
               /\ locks' = locks
               /\ taskLocks' = taskLocks
       /\ Cardinality({t \in timers'[i] : t.k \in ExitPathKinds}) <= 1
       /\ (con[i].isShuttingDown /\ ~con'[i].exited)
            => /\ con'[i].isShuttingDown
               /\ con'[i].terminationReason = con[i].terminationReason]_vars

\* an instance that holds a lock is shutting down for the first reason, with
\* its shutdown sequence under way, after a later request
C33_Witness ==
  \E i \in Instances :
    /\ hist.requested = i
    /\ con[i].isShuttingDown /\ ~con[i].exited
    /\ con[i].terminationReason \in ShutdownReasons
    /\ \E d \in locks : d.instance_id = i
    /\ \E t \in timers[i] : t.k \in ExitPathKinds

----------------------------------------------------------------------------
(* Claims about the heartbeats, checked under BeatSpec *)

\* the heartbeat tick of instance j has passed its findOne and has not yet
\* released its task lock: a renewal of that lease is in progress
renewalInProgress(j, task) ==
  call[j].task = task /\ call[j].pc \in {"save", "run", "release"}

\* C34: the findOne of a heartbeat tick that runs while a renewal of the same
\* lease is in progress skips the tick, and a skipped tick is no loss of the
\* lock: when it returns, the timers, the consumer and the locks of the
\* instance are as before.
C34_OverlappingTickSkipped ==
  [][\A i \in Instances :
       /\ (/\ call[i].pc = "find"
           /\ call'[i] # call[i]
           /\ \E j \in Instances \ {i} : renewalInProgress(j, call[i].task))
            => (call'[i].pc = "done" /\ call'[i].result = "skipped")
       /\ (/\ call[i].pc = "done"
           /\ call[i].result = "skipped"
           /\ call'[i].pc = "idle")
            => /\ timers'[i] = timers[i]
               /\ con'[i] = con[i]
               /\ co'[i] = co[i]
               /\ locks' = locks]_vars

\* the timers fire and the clock advances
FairShutSpec == ShutSpec /\ WF_vars(ShutNext)

\* what the lock check of instance i tests before it stands down: its own
\* execution lock, an execution lock of another instance with a heartbeat
\* within GLOBAL_LOCK_TIMEOUT, a conflict less than RECENT_CONFLICT ago
ownsExecutionLock(i) == \E d \in executionLocks(locks) : d.instance_id = i

otherHoldsExecutionLock(i) ==
  \E d \in executionLocks(locks) :
    /\ d.instance_id # i
    /\ d.last_heartbeat > now - Ticks(GLOBAL_LOCK_TIMEOUT)

conflictSeenLately(i) ==
  /\ con[i].telegramConflictDetected
  /\ con[i].lastTelegramConflictTime # NoTime
  /\ now - con[i].lastTelegramConflictTime < Ticks(RECENT_CONFLICT)

\* a tick of the lock check of instance i runs in this step
lockCheckRuns(i) ==
  /\ ~con[i].isShuttingDown /\ ~con[i].exited /\ co[i].pc = "none"
  /\ \E t \in Due(i) : t.k = "lockCheck" /\ t \notin timers'[i]
  /\ \E t \in timers'[i] : t.k = "lockCheck" /\ t.at = now + Ticks(LOCK_CHECK_PERIOD)

C25_NoSplitBrainInStore ==
  \A i \in Instances : ~(ownsExecutionLock(i) /\ otherHoldsExecutionLock(i))

----------------------------------------------------------------------------
(* Claims about the two locks, checked under LeaseSpec *)

\* C1: at most one instance has its consumer running at a time, unless a
\* stale execution lock of another instance was forcibly removed less than
\* GLOBAL_LOCK_TIMEOUT ago.
C1_AtMostOneLeader ==
  \A i, j \in Instances :
    (i # j /\ con[i].listening /\ con[j].listening)
      => /\ hist.forced # NoTime
         /\ now - hist.forced < Ticks(GLOBAL_LOCK_TIMEOUT)

\* C2: the store holds at most one master lock and at most one execution lock
\* whose last_heartbeat is within GLOBAL_LOCK_TIMEOUT.
C2_OneActiveLockPerName ==
  /\ Cardinality({d \in masterLocks(locks) : isActiveLock(d, now)}) <= 1
  /\ Cardinality({d \in executionLocks(locks) : isActiveLock(d, now)}) <= 1

\* both instances have passed the queries of the same acquisition and one of
\* them has saved its lock
C2_Witness ==
  \E i, j \in Instances :
    /\ i # j
    /\ \/ co[i].pc = "am_save" /\ \E d \in masterLocks(locks) : d.instance_id = j
       \/ co[i].pc = "ae_save" /\ \E d \in executionLocks(locks) : d.instance_id = j

C13_GateNeedsBothLocks ==
  \A i \in Instances :
    (~con[i].exited /\ isActiveInstance(i, locks, now)) => holdsBoth(i)

\* C14: an instance acquires the master lock before the execution lock: in
\* every state in which it owns the execution lock, first acquired or acquired
\* again after a loss, by a running instance, it owns the master lock as well.
C14_MasterBeforeExecution ==
  \A i \in Instances :
    (~con[i].exited /\ \E n \in executionLocks(locks) : n.instance_id = i)
      => \E n \in masterLocks(locks) : n.instance_id = i

\* a due tick of heartbeat k of instance i runs in this step and finds no lock
\* of the instance among ls
heartbeatFindsLoss(i, k, ls) ==
  /\ ~con[i].isShuttingDown /\ ~con[i].exited
  /\ co[i].pc = "none"
  /\ hist'.crashed = hist.crashed
  /\ \A d \in ls : d.instance_id # i
  /\ \E t \in Due(i) : t.k = k /\ t \notin timers'[i]
  /\ \A t \in Due(i) : t.k = "lockCheck" => t \in timers'[i]

\* C17: a heartbeat tick that finds its lock no longer owned by the instance
\* clears its own interval, stops the consumer when the lock is the execution
\* lock, and schedules the re-acquisition a short delay later; it neither sets
\* isShuttingDown nor ends the process.
C17_LossRecovers ==
  [][\A i \in Instances :
       /\ heartbeatFindsLoss(i, "masterHb", masterLocks(locks))
            => /\ \A t \in timers'[i] : t.k # "masterHb"
               /\ Timer("acquireMaster", now + Ticks(REACQUIRE_DELAY), 864) \in timers'[i]
               /\ con'[i] = con[i]
       /\ heartbeatFindsLoss(i, "execHb", executionLocks(locks))
            => /\ \A t \in timers'[i] : t.k # "execHb"
               /\ ~con'[i].listening
               /\ \E t \in timers'[i] :
                    /\ t.k \in {"stopLoss", "lossCleanup"}
                    /\ t.at = now + Ticks(REACQUIRE_DELAY)
               /\ ~con'[i].isShuttingDown /\ ~con'[i].exited
       /\ (\E t \in Due(i) : t.k = "lossCleanup" /\ t \notin timers'[i]
              /\ ~con[i].isShuttingDown /\ hist'.crashed = hist.crashed)
            => /\ \E t \in timers'[i] :
                    /\ t.k = "acquireExec" /\ t.arg = 931
                    /\ t.at > now /\ t.at <= now + TicksUp(REACQUIRE_DELAY + REACQUIRE_JITTER)
               /\ ~con'[i].isShuttingDown /\ ~con'[i].exited]_vars

C17_Witness ==
  \E i \in Instances :
    /\ ~con[i].exited /\ ~con[i].isShuttingDown /\ ~con[i].listening
    /\ \A t \in timers[i] : t.k # "execHb"
    /\ \E t \in timers[i] : t.k = "lossCleanup"

\* instance i takes the step
acted(i) == co'[i] # co[i] \/ con'[i] # con[i] \/ timers'[i] # timers[i]

\* the store's own removal of d, LOCK_TTL after its creation
expiredByStore(d) ==
  /\ now - d.created_at >= Ticks(LOCK_TTL)
  /\ \A i \in Instances : ~acted(i)

\* C18: no instance deletes or overwrites a Lock of another instance whose
\* last_heartbeat is within GLOBAL_LOCK_TIMEOUT: a Lock that a step removes or
\* changes is stale, or the step is taken by its owner, or it is the store
\* expiring the document.
C18_ForeignLocksUntouched ==
  [][\A d \in locks \ locks' :
       \/ d.last_heartbeat < now - Ticks(GLOBAL_LOCK_TIMEOUT)
       \/ acted(d.instance_id)
       \/ expiredByStore(d)]_vars

\* a deleteMany of the stale locks has just run in instance i and a fresh lock
\* of another instance is in the store
C18_Witness ==
  \E i \in Instances : \E d \in locks :
    /\ co[i].pc \in {"am_findMaster", "am_save", "ae_save"}
    /\ d.instance_id # i
    /\ d.last_heartbeat >= now - Ticks(GLOBAL_LOCK_TIMEOUT)

\* C20: a leader whose heartbeats keep succeeding and that is not asked to
\* shut down never loses a lock: while its process runs, a Lock document it
\* owns stays in the store.
C20_HealthyLeaderKeepsLocks ==
  [][\A d \in locks :
       (~con'[d.instance_id].exited /\ ~con[d.instance_id].isShuttingDown)
         => \E n \in locks' :
              /\ n.name = d.name /\ n.instance_id = d.instance_id
              /\ n.created_at = d.created_at]_vars

\* C21: when the check of acquireMasterLock finds an execution lock of another
\* instance with a heartbeat within GLOBAL_LOCK_TIMEOUT, the call creates no
\* lock, leaves the Lock collection as it is and sets its own retry 60-90 s
\* later.
C21_BacksOffFromActiveLeader ==
  [][\A i \in Instances :
       (/\ co[i].pc = "am_findExec" /\ co'[i].pc # "am_findExec"
        /\ ~con'[i].exited
        /\ \E d \in executionLocks(locks) :
             /\ d.instance_id # i
             /\ d.last_heartbeat > now - Ticks(GLOBAL_LOCK_TIMEOUT))
         => /\ locks' = locks
            /\ co'[i].pc = "none"
            /\ \E t \in timers'[i] :
                 /\ t.k = "acquireMaster" /\ t.arg = 638
                 /\ t.at >= now + Ticks(ACTIVE_RETRY_MIN)
                 /\ t.at <= now + TicksUp(ACTIVE_RETRY_MIN + ACTIVE_RETRY_SPREAD)]_vars

\* the retry of an instance is pending while another instance leads
C21_Witness ==
  \E i \in Instances :
    /\ co[i].pc = "none" /\ ~con[i].exited
    /\ \E t \in timers[i] : t.k = "acquireMaster" /\ t.arg = 638
    /\ \E j \in Instances \ {i} : isLeader(j) /\ holdsBoth(j)

\* C26: a lock check that finds the master lock or the execution lock of the
\* instance missing only sets the timer of the re-acquisition: the consumer,
\* the flags, the other timers and the Lock collection stay as they are.
C26_LockCheckGrace ==
  [][\A i \in Instances :
       LET masterLost == \A d \in masterLocks(locks) : d.instance_id # i
           executionLost == \A d \in executionLocks(locks) : d.instance_id # i
       IN (lockCheckRuns(i) /\ (masterLost \/ executionLost))
            => /\ con'[i] = con[i]
               /\ locks' = locks
               /\ \A t \in timers[i] : t.k # "lockCheck" => t \in timers'[i]
               /\ masterLost =>
                    Timer("acquireMaster", now + Ticks(REACQUIRE_DELAY), 993) \in timers'[i]
               /\ executionLost =>
                    Timer("acquireExec", now + Ticks(REACQUIRE_DELAY), 1000) \in timers'[i]]_vars

\* the lock check has found a lock missing while the consumer runs
C26_Witness ==
  \E i \in Instances :
    /\ con[i].listening /\ ~con[i].isShuttingDown
    /\ \E t \in timers[i] : t.k = "acquireExec" /\ t.arg = 1000
    /\ \E t \in timers[i] : t.k = "lockCheck"

\* acquireExecutionLock of instance i is entered in this step
entersAcquireExecution(i) ==
  /\ ~con[i].isShuttingDown /\ ~con[i].exited
  /\ hist'.crashed = hist.crashed
  /\ \/ co[i].pc = "ae_entry" /\ co'[i].pc # "ae_entry"
     \/ co[i].pc = "none" /\ \E t \in Due(i) : t.k = "acquireExec" /\ t \notin timers'[i]

\* C27: two attempts of acquireExecutionLock of one instance that pass the
\* rate limit are at least CONNECTION_ATTEMPT_COOLDOWN apart; an attempt that
\* comes earlier probes nothing, saves nothing and sets its retry for after
\* the cooldown.
C27_AttemptsSpaced ==
  [][\A i \in Instances :
       LET last == co[i].lastConnectionAttemptTime IN
       /\ co'[i].lastConnectionAttemptTime # last
            => \/ last = NoTime
               \/ co'[i].lastConnectionAttemptTime - last >= Ticks(CONNECTION_ATTEMPT_COOLDOWN)
               \/ con'[i].exited
       /\ (/\ entersAcquireExecution(i)
           /\ last # NoTime /\ now - last < Ticks(CONNECTION_ATTEMPT_COOLDOWN))
            => /\ co'[i].lastConnectionAttemptTime = last
               /\ co'[i].pc = "none"
               /\ con'[i] = con[i]
               /\ locks' = locks /\ taskLocks' = taskLocks
               /\ \E t \in timers'[i] :
                    /\ t.k = "acquireExec" /\ t.arg = 729
                    /\ t.at >= last + Ticks(CONNECTION_ATTEMPT_COOLDOWN)]_vars

\* an attempt has been put off to the end of the cooldown
C27_Witness ==
  \E i \in Instances :
    /\ ~con[i].exited
    /\ \E t \in timers[i] : t.k = "acquireExec" /\ t.arg = 729
    /\ co[i].lastConnectionAttemptTime # NoTime

\* a call of the store made by acquireMasterLock (master TRUE) or by
\* acquireExecutionLock throws in instance i: a failure of the store, or a
\* save refused because a lock of that name is stored
storeCallThrows(i, master) ==
  LET steps == IF master THEN masterStoreSteps ELSE executionStoreSteps
      save == IF master THEN "am_save" ELSE "ae_save"
      name == IF master THEN "master_lock" ELSE "execution_lock"
  IN /\ co[i].pc \in steps
     /\ \/ hist'.failures = hist.failures + 1 /\ hist'.failed = i
        \/ /\ co[i].pc = save
           /\ co'[i].pc = "none"
           /\ locks' = locks
           /\ \E d \in locks : d.name = name

\* C28: when a call of the store throws inside acquireMasterLock or
\* acquireExecutionLock and the instance is not shutting down, the instance
\* neither exits nor starts a shutdown, its consumer and the stored locks are
\* left as they were, the acquisition ends, and the function whose call threw
\* is set to run again after 20 s (master) or 15 s (execution).
C28_StoreFailureRetries ==
  [][\A i \in Instances : \A master \in BOOLEAN :
       storeCallThrows(i, master) /\ ~con[i].isShuttingDown
       => /\ con'[i] = con[i]
          /\ locks' = locks
          /\ co'[i].pc = "none"
          /\ \E t \in timers'[i] :
               /\ t.k = (IF master THEN "acquireMaster" ELSE "acquireExec")
               /\ t.arg = (IF master THEN 707 ELSE 828)
               /\ t.at = now + (IF master THEN Ticks(MASTER_ERROR_RETRY)
                                         ELSE Ticks(EXECUTION_ERROR_RETRY))]_vars

\* a call of the store has thrown in an instance that has since acquired both
\* locks
C28_Witness ==
  \E i \in Instances : hist.failed = i /\ holdsBoth(i)

\* C4: unless the process dies, acquireMasterLock (acquireExecutionLock) that finds an active lock of
\* its name owned by the calling instance creates no document and raises no
\* error, sets last_heartbeat of that lock to the current time and goes on:
\* acquireMasterLock calls acquireExecutionLock, acquireExecutionLock starts
\* the consumer unless it runs or is starting.
C4_ReentrantAcquisition ==
  [][\A i \in Instances :
       /\ (/\ co[i].pc = "am_findMaster"
           /\ co'[i].pc # "am_findMaster"
           /\ ~con'[i].exited
           /\ \E d \in masterLocks(locks) : d.instance_id = i /\ isActiveLock(d, now))
          => /\ Cardinality(locks') = Cardinality(locks)
             /\ \E d \in masterLocks(locks') :
                  d.instance_id = i /\ d.last_heartbeat = now
             /\ co'[i].pc = "ae_entry"
       /\ (/\ co[i].pc = "ae_find"
           /\ co'[i].pc # "ae_find"
           /\ ~con'[i].exited
           /\ \E d \in executionLocks(locks) : d.instance_id = i /\ isActiveLock(d, now))
          => /\ Cardinality(locks') = Cardinality(locks)
             /\ \E d \in executionLocks(locks') :
                  d.instance_id = i /\ d.last_heartbeat = now
             /\ co'[i].pc = "none"
             /\ timers'[i] = timers[i]
             /\ (con[i].bot \/ con[i].isBotStarting \/ con'[i].isBotStarting)]_vars

\* acquireMasterLock has found its own active master lock and is about to
\* call acquireExecutionLock
C4_Witness ==
  /\ hist.reentered
  /\ \E i \in Instances :
       /\ co[i].pc = "ae_entry"
       /\ \E d \in masterLocks(locks) : d.instance_id = i /\ d.last_heartbeat = now

----------------------------------------------------------------------------
(* Claims about the lock file, checked under MarkerSpec                     *)

\* C36: the lock file is removed only by the instance whose id it holds:
\* releaseAllLocks of an instance removes the file when it holds the id of
\* that instance and leaves it as it is otherwise, no other step of an
\* instance removes it, and after a lock check of an instance the file holds
\* the id of that instance, whether it was missing or held another id before.
C36_MarkerOwnerChecked ==
  [][\A i \in Instances :
       /\ lockCheckRuns(i) => co'[i].lockFile = i
       /\ releaseAllLocksRuns(i) =>
            co'[i].lockFile = IF co[i].lockFile = i THEN NoLockFile ELSE co[i].lockFile
       /\ (co[i].lockFile # NoLockFile /\ co'[i].lockFile = NoLockFile) =>
            \/ \E j \in Instances : releaseAllLocksRuns(j) /\ co[i].lockFile = j
            \/ UNCHANGED <<con, timers, locks, taskLocks>>]_vars

\* an instance has run releaseAllLocks and the lock file still holds the id
\* of the other instance, and a lock check has found the file missing and
\* has written it again
C36_Witness ==
  /\ \E i \in Instances :
       /\ con[i].isShuttingDown
       /\ \E t \in timers[i] : t.k = "exit"
       /\ co[i].lockFile \in Instances \ {i}
  /\ hist.recreated

----------------------------------------------------------------------------
(* Claims about the heartbeat timers, checked under RenewSpec               *)

\* the heartbeat interval of instance i for a lock of the given type is armed
heartbeatArmed(i, type) ==
  \E t \in timers[i] : t.k = (IF type = "master" THEN "masterHb" ELSE "execHb")

ownsLock(i, type) == \E d \in locks : d.instance_id = i /\ d.lock_type = type

\* C37: outside shutdown, an instance that owns a Lock document in the store
\* has the heartbeat timer of that lock armed.
C37_OwnedLeaseHasHeartbeat ==
  \A i \in Instances : \A type \in {"master", "execution"} :
    (~con[i].isShuttingDown /\ ~con[i].exited /\ ownsLock(i, type))
      => heartbeatArmed(i, type)

----------------------------------------------------------------------------
(* Claims about the acquisition attempts, checked under LeaseSpec           *)

\* the calls of acquireMasterLock (lease "master") or acquireExecutionLock
\* (lease "execution") of instance i that a timer is to make or that are
\* under way
acquisitionAttempts(i, lease) ==
  IF lease = "master"
  THEN Cardinality({t \in timers[i] : t.k = "acquireMaster"})
       + (IF co[i].pc \in masterStoreSteps THEN 1 ELSE 0)
  ELSE Cardinality({t \in timers[i] : t.k = "acquireExec"})
       + (IF co[i].pc \in {"ae_entry"} \cup executionStoreSteps THEN 1 ELSE 0)

\* C39: within one instance at most one acquisition attempt for each lease is
\* scheduled or under way at any time.
C39_OneAcquisitionPerLease ==
  \A i \in Instances : \A lease \in {"master", "execution"} :
    acquisitionAttempts(i, lease) <= 1

----------------------------------------------------------------------------
(* Claims about the flag isBotStarting, checked under TakeoverSpec          *)

\* the timers whose callbacks set isBotStarting to false
ResetKinds == StopKinds \cup {"restart", "rpFull", "shutdownWait", "exit"}

\* instance i has isBotStarting set while no start is under way and nothing
\* that resets the flag is pending: every later startBot returns at its guard
stuckStarting(i) ==
  /\ con[i].isBotStarting
  /\ ~con[i].bot
  /\ ~con[i].isShuttingDown /\ ~con[i].exited
  /\ con[i].chain = "none"
  /\ \A t \in timers[i] : t.k \notin ResetKinds

\* C38: a start attempt does not leave isBotStarting set for good: while the
\* flag is set and no consumer exists, the start is under way or a callback
\* that resets the flag is pending.
C38_StartingIsReset == \A i \in Instances : ~stuckStarting(i)

====
